---- MODULE Spec2Model ----
(***************************************************************************)
(* LombardSoft: the per-account workflow of main.py (process_account and   *)
(* main), the status file of models/settings.py, the retry-wrapped chain   *)
(* writes of sdks/lombard_sdk/lbtc_operations.py and the bounded polls.    *)
(***************************************************************************)
EXTENDS Integers, Sequences, FiniteSets, TLC

\* ------------------------------------------------------------------ bounds
NumAccounts == 2
MaxRuns == 2
MaxFaults == 2

\* ------------------------------------------------------------- Python data
\* Python None; identifiers and addresses are tuples, so None is the empty one.
None == <<>>

\* Variant: the test for a missing value is left out (everything passes).
Truthy_untested(x) == TRUE

Truthy(x) == x # None

\* dict.get(key): the value, or None when the key is missing.
DictGet(d, k) == IF k \in DOMAIN d THEN d[k] ELSE None

\* models/status_enum.py: member name -> member value.
AccountStatus ==
  [ INIT |-> "Initialized",
    BTC_ADDRESS_GENERATED_WAITING |-> "BTC Address Generated, Waiting for Whitelisting",
    BTC_ADDRESS_GENERATED |-> "BTC Address Generated",
    BTC_DEPOSIT_INITIATED |-> "BTC Deposit Initiated",
    BTC_CONFIRMATIONS_PENDING |-> "Waiting for BTC Confirmations",
    CHECKING_ETH_BALANCE |-> "Checking ETH Balance (Mainnet)",
    CHECKING_L2_ETH_BALANCE |-> "Checking L2 ETH Balance",
    BRIDGING_FROM_L2 |-> "Bridging from L2 network to Ethereum mainnet",
    WITHDRAWING_ETH_FROM_EXCHANGE |-> "Withdrawing ETH from exchange",
    WITHDRAWING_ETH_FROM_EXCHANGE_CONFIRMATION |-> "Waiting for ETH withdrawal confirmation",
    LBTC_MINT |-> "LBTC Mint",
    LBTC_MINT_CONFIRMATION |-> "LBTC Mint Confirmed",
    LBTC_RESTAKED |-> "LBTC Restaked",
    LBTC_RESTAKED_CONFIRMATION |-> "LBTC Restake Confirmed",
    COMPLETED |-> "Process Completed" ]

StatusNames == DOMAIN AccountStatus

\* AccountStatus(value): the member with that value (ValueError when none).
IsStatusValue(v) == \E s \in StatusNames : AccountStatus[s] = v

StatusOfValue(v) == CHOOSE s \in StatusNames : AccountStatus[s] = v

\* --------------------------------------------------------------- settings
\* One row of Soft_settings.xlsx after parse_account_settings.  With
\* generate_btc_address = 1 the btc_address cell is ignored (None); with 0 it
\* is required.  selected_vault is None unless restaking_LBTC = 1.
PrivateKey(i) == <<"pk", i>>

ConfigAddress(i) == <<"cfg_addr", i>>

Exchanges == {"OKX", "Bitget"}

Vaults == {"Defi_Vault", "Etherfi"}

\* The max_gas_gwei cell: empty (None, no limitation) or an integer n, held
\* as the one-element tuple <<n>>.
GasCeilings == {None, <<1>>}

parse_account_settings(i, gen, restake, exch, vault, max_gas) ==
  [ private_key |-> PrivateKey(i),
    exchange |-> exch,
    max_gas_gwei |-> max_gas,
    generate_btc_address |-> gen,
    btc_address |-> IF gen = 1 THEN None ELSE ConfigAddress(i),
    restaking_LBTC |-> restake,
    selected_vault |-> IF restake = 1 THEN vault ELSE "NoVault" ]

\* The settings files considered: every row has the same options (the rows
\* differ in key and address); odd rows use OKX, even rows Bitget.
ExchangeOfRow(i) == IF i % 2 = 1 THEN "OKX" ELSE "Bitget"

\* The options of a file: the ceiling varies where a restake reads it
\* (restaking_LBTC = 1 with the vault the code supports).
RowOptions ==
  { o \in [gen : {0, 1}, restake : {0, 1}, vault : Vaults, max_gas : GasCeilings] :
      /\ o.restake = 0 => (o.vault = "Defi_Vault" /\ o.max_gas = None)
      /\ o.vault = "Etherfi" => o.max_gas # None }

Configurations ==
  { [i \in 1..NumAccounts |->
       parse_account_settings(i, o.gen, o.restake, ExchangeOfRow(i), o.vault,
                              o.max_gas)] : o \in RowOptions }

\* --------------------------------------------------------------- gas gate
\* approve_lbtc reads the ceiling as int(str(settings.get('max_gas_gwei'))):
\* str(None) is 'None', which int() rejects with ValueError.
approve_ceiling_parses(max_gas) == max_gas # None

\* `if max_gas_gwei:` -- None and 0 are falsy, the gate is skipped.
gate_applies(max_gas) == max_gas # None /\ max_gas[1] # 0

\* web3.to_wei(n, 'gwei')
to_wei(gwei) == gwei * 1000000000

\* `while gas_price > max_gas_wei:` -- the gate holds the write back.
gate_holds(max_gas, gas_price) ==
  gate_applies(max_gas) /\ gas_price > to_wei(max_gas[1])

\* ---------------------------------------------------------------- account
\* models/soft_account.py SoftAccount.__init__.  withdrawal_id and
\* transaction_hash are the two attributes load_status assigns.
SoftAccount(s) ==
  [ settings |-> s,
    status |-> "INIT",
    btc_address |-> DictGet(s, "btc_address"),
    withdrawal_id_btc |-> None,
    transaction_hash_mint_lbtc |-> None,
    transaction_hash_approve_lbtc |-> None,
    transaction_hash_restake_lbtc |-> None,
    withdrawal_id_eth |-> None,
    transaction_hash_bridge_eth |-> None,
    withdrawal_id |-> None,
    transaction_hash |-> None ]

\* Variant: the status is left as it was.
update_status_kept(acc, new_status) == acc

update_status(acc, new_status) == [acc EXCEPT !.status = new_status]

to_dict(acc) ==
  [ settings |-> acc.settings,
    status |-> AccountStatus[acc.status],
    btc_address |-> acc.btc_address,
    withdrawal_id_btc |-> acc.withdrawal_id_btc,
    transaction_hash_mint_lbtc |-> acc.transaction_hash_mint_lbtc,
    transaction_hash_approve_lbtc |-> acc.transaction_hash_approve_lbtc,
    transaction_hash_restake_lbtc |-> acc.transaction_hash_restake_lbtc,
    withdrawal_id_eth |-> acc.withdrawal_id_eth,
    transaction_hash_bridge_eth |-> acc.transaction_hash_bridge_eth ]

\* ------------------------------------------------------------ status file
\* The status file: whether it exists, and the JSON object it holds (a
\* mapping private_key -> to_dict record).
NoFile == [exists |-> FALSE, data |-> <<>>]

\* Variant: the file is left without a record.
save_status_missing(accts) == NoFile

\* UserSettingsParser.save_status: a fresh mapping of every parsed account.
save_status(accts) ==
  [ exists |-> TRUE,
    data |-> [ k \in {accts[i].settings.private_key : i \in DOMAIN accts} |->
                 to_dict(accts[CHOOSE i \in DOMAIN accts :
                                  accts[i].settings.private_key = k]) ] ]

\* Variant: the record of a known identity is not found; the account is INIT.
load_account_unmatched(acc, status_data) == [acc EXCEPT !.status = "INIT"]

\* Variant: the status is restored, the deposit address is not.
load_account_without_address(acc, status_data) ==
  LET private_key == acc.settings.private_key IN
  IF private_key \in DOMAIN status_data
  THEN [acc EXCEPT !.status = StatusOfValue(status_data[private_key].status)]
  ELSE [acc EXCEPT !.status = "INIT"]

\* UserSettingsParser.load_status, the body of the loop for one account.
load_account(acc, status_data) ==
  LET private_key == acc.settings.private_key IN
  IF private_key \in DOMAIN status_data
  THEN LET data == status_data[private_key]
           \* data.get('status'); a missing status and '' are both falsy
           account_status == IF "status" \in DOMAIN data THEN data.status ELSE ""
       IN [ acc EXCEPT
              !.status = IF account_status # ""
                         THEN StatusOfValue(account_status) ELSE @,
              !.btc_address = DictGet(data, "btc_address"),
              !.withdrawal_id = DictGet(data, "withdrawal_id"),
              !.transaction_hash = DictGet(data, "transaction_hash") ]
  ELSE [acc EXCEPT !.status = "INIT"]

\* The status an identity has on file (as load_status reads it: INIT when the
\* file or the record is missing).
PersistedStatus(file, private_key) ==
  IF file.exists /\ private_key \in DOMAIN file.data
  THEN StatusOfValue(file.data[private_key].status)
  ELSE "INIT"

load_status(accts, file) ==
  IF file.exists
  THEN [i \in DOMAIN accts |-> load_account(accts[i], file.data)]
  ELSE accts


\* ================================================================== state
VARIABLES
  settings,         \* the rows of Soft_settings.xlsx, parsed (fixed per behaviour)
  accounts,         \* parser.accounts: the in-memory SoftAccount objects
  status_file,      \* status.json on disk
  pc,               \* where main / process_account stands
  cur,              \* index of the account of the for loop in main
  pos,              \* index of the next `if account.status == ...` block
  source_l2_chain,  \* local variable of process_account
  run,              \* number of the current process run
  faults,           \* history: external failures and crashes so far
  clean,            \* this run: no external failure so far
  subs,             \* history: submissions made and confirmations observed,
                    \* per account and kind
  start_status,     \* status each account had on file when this run began
  invoked,          \* accounts process_account was invoked on, this run
  outcome,          \* how each invocation of this run ended
  fail,             \* the raising step of the current invocation
  returned,         \* identifiers successful steps returned, this invocation
  rt,               \* a retry-wrapped chain write (LBTCOps)
  pl,               \* an external-status poll
  br,               \* a call of RelayAPI.bridge_eth
  ld,               \* the start of main: the sheet and the status file are loaded
  sv                \* the loop of main with writes of the store that may fail

vars == << settings, accounts, status_file, pc, cur, pos, source_l2_chain, run,
           faults, clean, subs, start_status, invoked, outcome, fail, returned,
           rt, pl, br, ld, sv >>

\* What the history records besides submissions: wait_for_confirmations
\* returned, approve_lbtc got the receipt of its transaction, and
\* confirm_lbtc_mint / confirm_restake read a receipt with status 1.
Observations == {"deposit_confirmed", "approve_mined", "mint_receipt",
                 "restake_receipt"}

Kinds == {"btc_withdrawal", "eth_withdrawal", "bridge_tx", "mint_tx",
          "approve_tx", "restake_tx", "address"} \cup Observations

IdFields == {"btc_address", "withdrawal_id_btc", "withdrawal_id_eth",
             "transaction_hash_bridge_eth", "transaction_hash_mint_lbtc",
             "transaction_hash_approve_lbtc", "transaction_hash_restake_lbtc"}

NoneReturned == [f \in IdFields |-> None]

NoFail == [raised |-> FALSE, status |-> "INIT"]

Idle == [op |-> "idle"]

Acc == accounts[cur]

\* The identifier the n-th submission of a kind by the current account yields.
FreshId(kind) == <<kind, cur, subs[cur][kind] + 1>>

\* Variant: the submission is made for the account after the current one.
Submitted_other(kind) == [subs EXCEPT ![(cur % NumAccounts) + 1][kind] = @ + 1]

Submitted(kind) == [subs EXCEPT ![cur][kind] = @ + 1]

\* The current account's step observed the confirmation `kind`.
Observed(kind) == [subs EXCEPT ![cur][kind] = 1]

\* An external operation may fail while the budget of failures lasts.
MayFail(ok) == ok \/ faults < MaxFaults

\* The step met n external failures.
Faulted(n) == faults' = faults + n /\ clean' = (clean /\ n = 0)

NoFault == UNCHANGED << faults, clean >>

\* Locals of process_account, as they are outside an invocation.
NoInvocation ==
  /\ pos' = 1
  /\ source_l2_chain' = "unbound"
  /\ fail' = NoFail
  /\ returned' = NoneReturned

\* ------------------------------------------------------------------- main
\* main.py main(): UserSettingsParser(settings_file) runs load_settings and
\* load_status; main then calls load_status again and takes the accounts.
LoadedAccounts ==
  load_status(load_status([i \in 1..NumAccounts |-> SoftAccount(settings[i])],
                          status_file), status_file)

MainLoad ==
  /\ pc = "start"
  /\ accounts' = LoadedAccounts
  /\ start_status' = [i \in 1..NumAccounts |->
                         PersistedStatus(status_file, PrivateKey(i))]
  /\ clean' = TRUE
  /\ pc' = "loop"
  /\ UNCHANGED << settings, status_file, cur, pos, source_l2_chain, run, faults,
                  subs, invoked, outcome, fail, returned, rt, pl, br, ld, sv >>

\* for account in accounts: try: await process_account(...)
Invoke ==
  /\ pc = "loop"
  /\ cur <= NumAccounts
  /\ pc' = "proc"
  /\ invoked' = Append(invoked, cur)
  /\ UNCHANGED << settings, accounts, status_file, cur, pos, source_l2_chain, run,
                  faults, clean, subs, start_status, outcome, fail, returned,
                  rt, pl, br, ld, sv >>

MainFinish ==
  /\ pc = "loop"
  /\ cur > NumAccounts
  /\ pc' = "done"
  /\ UNCHANGED << settings, accounts, status_file, cur, pos, source_l2_chain, run,
                  faults, clean, subs, start_status, invoked, outcome, fail,
                  returned, rt, pl, br, ld, sv >>

\* Variant: the except clause of main leaves the loop (`break`).
main_except_break(k) == NumAccounts + 1

\* The account the loop of main goes to after its except clause (`continue`).
main_except_next(k) == k + 1

\* except Exception in main: log, save_status, continue.
MainExcept ==
  /\ pc = "main_except"
  /\ status_file' = save_status(accounts)
  /\ outcome' = [outcome EXCEPT ![cur] = "raised"]
  /\ cur' = main_except_next(cur)
  /\ pc' = "loop"
  /\ NoInvocation
  /\ UNCHANGED << settings, accounts, run, faults, clean, subs, start_status,
                  invoked, rt, pl, br, ld, sv >>

\* A process run is over: its memory (objects, locals) is gone.
ProcessGone ==
  /\ pc' = "start"
  /\ run' = run + 1
  /\ accounts' = <<>>
  /\ cur' = 1
  /\ NoInvocation
  /\ clean' = FALSE
  /\ invoked' = <<>>
  /\ outcome' = [i \in 1..NumAccounts |-> "pending"]
  /\ start_status' = [i \in 1..NumAccounts |-> "INIT"]
  /\ UNCHANGED << settings, status_file, subs, rt, pl, br, ld, sv >>

\* The process dies (power loss, kill): memory is lost, the file stays.
Crash ==
  /\ pc \notin {"start", "done"}
  /\ faults < MaxFaults
  /\ run < MaxRuns
  /\ faults' = faults + 1
  /\ ProcessGone

\* The user runs the software again after a run that ended.
Rerun ==
  /\ pc = "done"
  /\ run < MaxRuns
  /\ UNCHANGED faults
  /\ ProcessGone

\* -------------------------------------------------------- process_account
\* The chain of `if account.status == X:` blocks of process_account, in the
\* order of the code; 0 for a status no block tests.
Block ==
  [ INIT |-> 1,
    BTC_ADDRESS_GENERATED_WAITING |-> 2,
    BTC_ADDRESS_GENERATED |-> 3,
    BTC_DEPOSIT_INITIATED |-> 4,
    CHECKING_ETH_BALANCE |-> 5,
    CHECKING_L2_ETH_BALANCE |-> 6,
    WITHDRAWING_ETH_FROM_EXCHANGE |-> 7,
    WITHDRAWING_ETH_FROM_EXCHANGE_CONFIRMATION |-> 8,
    BRIDGING_FROM_L2 |-> 9,
    BTC_CONFIRMATIONS_PENDING |-> 10,
    LBTC_MINT |-> 11,
    LBTC_MINT_CONFIRMATION |-> 12,
    LBTC_RESTAKED |-> 13,
    LBTC_RESTAKED_CONFIRMATION |-> 0,
    COMPLETED |-> 0 ]

\* Variant: the block runs whatever the status of the account is.
AtBlock_any_status(st) == pc = "proc" /\ pos <= Block[st]

\* Control is at or before the block that tests status st, and st is the status.
AtBlock(st) == pc = "proc" /\ Acc.status = st /\ pos <= Block[st]

\* The block ran to its end; control falls through to the blocks after it.
Advance(st, acc2) ==
  /\ accounts' = [accounts EXCEPT ![cur] = acc2]
  /\ pc' = "proc"
  /\ pos' = Block[st] + 1
  /\ UNCHANGED << fail, outcome, cur >>

\* The block raised: control goes to the except clause of process_account.
Raise(acc2) ==
  /\ accounts' = [accounts EXCEPT ![cur] = acc2]
  /\ pc' = "except"
  /\ fail' = [raised |-> TRUE, status |-> Acc.status]
  /\ UNCHANGED << pos, outcome, cur >>

\* process_account returned normally to the loop of main.
Return ==
  /\ pc' = "loop"
  /\ cur' = cur + 1
  /\ outcome' = [outcome EXCEPT ![cur] = "returned"]
  /\ NoInvocation

ProcFrame == UNCHANGED << settings, run, start_status, invoked, rt, pl, br, ld, sv >>

\* INIT, generate_btc_address == 1, address already present.
InitAddressPresent ==
  /\ AtBlock("INIT")
  /\ Acc.settings.generate_btc_address = 1
  /\ Truthy(Acc.btc_address)
  /\ Advance("INIT", update_status(Acc, "BTC_ADDRESS_GENERATED"))
  /\ NoFault
  /\ UNCHANGED << status_file, source_l2_chain, subs, returned >>
  /\ ProcFrame

\* INIT, generate_btc_address == 1, no address: generate_btc_address,
\* update_btc_address_in_excel, update_status(WAITING), save_status.
InitGenerate ==
  /\ AtBlock("INIT")
  /\ Acc.settings.generate_btc_address = 1
  /\ ~Truthy(Acc.btc_address)
  /\ \E result \in {"generate_failed", "excel_failed", "ok"} :
       /\ MayFail(result = "ok")
       /\ Faulted(IF result = "ok" THEN 0 ELSE 1)
       /\ LET addr == FreshId("address")
              acc1 == [Acc EXCEPT !.btc_address = addr,
                                  !.settings.btc_address = addr]
              acc2 == update_status(acc1, "BTC_ADDRESS_GENERATED_WAITING")
          IN IF result = "generate_failed"
             THEN /\ Raise(Acc)
                  /\ UNCHANGED << status_file, subs, returned >>
             ELSE /\ subs' = Submitted("address")
                  /\ IF result = "excel_failed"
                     THEN /\ Raise(acc1)
                          /\ returned' = [returned EXCEPT !.btc_address = addr]
                          /\ UNCHANGED status_file
                     ELSE /\ accounts' = [accounts EXCEPT ![cur] = acc2]
                          /\ status_file' = save_status(accounts')
                          /\ pc' = "init_saved"
                          /\ returned' = [returned EXCEPT !.btc_address = addr]
                          /\ UNCHANGED << fail, outcome, cur, pos >>
  /\ UNCHANGED source_l2_chain
  /\ ProcFrame

\* ... update_status(BTC_ADDRESS_GENERATED), save_status, return.
InitPromote ==
  /\ pc = "init_saved"
  /\ accounts' = [accounts EXCEPT
                    ![cur] = update_status(Acc, "BTC_ADDRESS_GENERATED")]
  /\ status_file' = save_status(accounts')
  /\ Return
  /\ NoFault
  /\ UNCHANGED subs
  /\ ProcFrame

\* INIT, generate_btc_address == 0: take the configured address.
InitConfigured ==
  /\ AtBlock("INIT")
  /\ Acc.settings.generate_btc_address # 1
  /\ Advance("INIT",
             update_status([Acc EXCEPT !.btc_address = Acc.settings.btc_address],
                           "BTC_ADDRESS_GENERATED"))
  /\ NoFault
  /\ UNCHANGED << status_file, source_l2_chain, subs, returned >>
  /\ ProcFrame

\* BTC_ADDRESS_GENERATED_WAITING: log and return (nothing is saved).
Waiting ==
  /\ AtBlock("BTC_ADDRESS_GENERATED_WAITING")
  /\ Return
  /\ NoFault
  /\ UNCHANGED << accounts, status_file, subs >>
  /\ ProcFrame

\* BTC_ADDRESS_GENERATED: withdraw_btc, update_status(BTC_DEPOSIT_INITIATED).
WithdrawBtc ==
  /\ AtBlock("BTC_ADDRESS_GENERATED")
  /\ IF Acc.settings.exchange \notin {"OKX", "Bitget"} \/ ~Truthy(Acc.btc_address)
     THEN /\ Raise(Acc)
          /\ NoFault
          /\ UNCHANGED << subs, returned >>
     ELSE \E ok \in BOOLEAN :
       /\ MayFail(ok)
       /\ Faulted(IF ok THEN 0 ELSE 1)
       /\ IF ok
          THEN LET withdrawal_id == FreshId("btc_withdrawal") IN
               /\ Advance("BTC_ADDRESS_GENERATED",
                    update_status([Acc EXCEPT !.withdrawal_id_btc = withdrawal_id],
                                  "BTC_DEPOSIT_INITIATED"))
               /\ subs' = Submitted("btc_withdrawal")
               /\ returned' = [returned EXCEPT !.withdrawal_id_btc = withdrawal_id]
          ELSE /\ Raise(Acc)
               /\ UNCHANGED << subs, returned >>
  /\ UNCHANGED << status_file, source_l2_chain >>
  /\ ProcFrame

\* BTC_DEPOSIT_INITIATED: wait_for_confirmations.
WaitConfirmations ==
  /\ AtBlock("BTC_DEPOSIT_INITIATED")
  /\ \E confirmed \in BOOLEAN :
       /\ MayFail(confirmed)
       /\ Faulted(IF confirmed THEN 0 ELSE 1)
       /\ IF confirmed
          THEN /\ Advance("BTC_DEPOSIT_INITIATED",
                          update_status(Acc, "CHECKING_ETH_BALANCE"))
               /\ subs' = Observed("deposit_confirmed")
          ELSE /\ Raise(Acc)
               /\ UNCHANGED subs
  /\ UNCHANGED << status_file, source_l2_chain, returned >>
  /\ ProcFrame

\* Variant: an insufficient balance sends the account back to the deposit wait.
eth_balance_branch_back(check_eth_result) ==
  IF check_eth_result THEN "BTC_CONFIRMATIONS_PENDING" ELSE "BTC_DEPOSIT_INITIATED"

\* The status the CHECKING_ETH_BALANCE block moves to.
eth_balance_branch(check_eth_result) ==
  IF check_eth_result THEN "BTC_CONFIRMATIONS_PENDING" ELSE "CHECKING_L2_ETH_BALANCE"

\* Balances of ETH, in units of 0.0001 ETH: below, at and above 0.0012, and
\* below and at 0.0022.
EthBalances == {11, 12, 13, 21, 22}

\* `if balance >= 0.0012`
min_eth_balance == 12

\* Variant: the test is strict (`balance > 0.0012`).
check_eth_balance_above(balance) == balance > min_eth_balance

\* check_eth_balance: True when the balance on Ethereum is at least 0.0012.
check_eth_balance(balance) == balance >= min_eth_balance

\* CHECKING_ETH_BALANCE, when web3.eth.get_balance answers `balance`.
CheckEthBalanceOn(balance) ==
  /\ AtBlock("CHECKING_ETH_BALANCE")
  /\ NoFault
  /\ LET check_eth_result == check_eth_balance(balance) IN
     Advance("CHECKING_ETH_BALANCE",
             update_status(Acc, eth_balance_branch(check_eth_result)))
  /\ UNCHANGED << status_file, source_l2_chain, subs, returned >>
  /\ ProcFrame

\* CHECKING_ETH_BALANCE: the balance is read, or the request fails.
CheckEthBalance ==
  \/ \E balance \in EthBalances : CheckEthBalanceOn(balance)
  \/ /\ AtBlock("CHECKING_ETH_BALANCE")
     /\ faults < MaxFaults
     /\ Faulted(1)
     /\ Raise(Acc)
     /\ UNCHANGED << status_file, source_l2_chain, subs, returned >>
     /\ ProcFrame

\* `for l2_chain in ['Optimism', 'Base', 'Arbitrum']`
L2Chains == <<"Optimism", "Base", "Arbitrum">>

\* `if balance >= 0.0022`, in units of 0.0001 ETH
min_l2_eth_balance == 22

\* What the three chains may hold: each 0.0013, 0.0021 or 0.0022 ETH.
L2Balances == [ {"Optimism", "Base", "Arbitrum"} -> {13, 21, 22} ]

\* Variant: the loop keeps going after a chain that clears the threshold and
\* answers the last one that does.
check_l2_eth_balance_last(balances) ==
  IF balances["Arbitrum"] >= min_l2_eth_balance THEN "Arbitrum"
  ELSE IF balances["Base"] >= min_l2_eth_balance THEN "Base"
  ELSE IF balances["Optimism"] >= min_l2_eth_balance THEN "Optimism"
  ELSE "False"

\* The loop of check_l2_eth_balance from the n-th chain on: the first chain
\* whose balance is at least 0.0022, as (chain, True); False (the else of
\* the for) when there is none.
RECURSIVE check_l2_eth_balance_from(_, _)
check_l2_eth_balance_from(balances, n) ==
  IF n > Len(L2Chains)
  THEN "False"
  ELSE IF balances[L2Chains[n]] >= min_l2_eth_balance
       THEN L2Chains[n]
       ELSE check_l2_eth_balance_from(balances, n + 1)

check_l2_eth_balance(balances) == check_l2_eth_balance_from(balances, 1)

\* CHECKING_L2_ETH_BALANCE, when the chains answer `balances`.
CheckL2BalanceOn(balances) ==
  /\ AtBlock("CHECKING_L2_ETH_BALANCE")
  /\ NoFault
  /\ LET check_l2_eth_result == check_l2_eth_balance(balances) IN
     IF check_l2_eth_result # "False"
     THEN /\ source_l2_chain' = check_l2_eth_result
          /\ Advance("CHECKING_L2_ETH_BALANCE",
                     update_status(Acc, "BRIDGING_FROM_L2"))
     ELSE /\ UNCHANGED source_l2_chain
          /\ Advance("CHECKING_L2_ETH_BALANCE",
                     update_status(Acc, "WITHDRAWING_ETH_FROM_EXCHANGE"))
  /\ UNCHANGED << status_file, subs, returned >>
  /\ ProcFrame

\* CHECKING_L2_ETH_BALANCE: the balances are read, or a request fails.
CheckL2Balance ==
  \/ \E balances \in L2Balances : CheckL2BalanceOn(balances)
  \/ /\ AtBlock("CHECKING_L2_ETH_BALANCE")
     /\ faults < MaxFaults
     /\ Faulted(1)
     /\ Raise(Acc)
     /\ UNCHANGED << status_file, source_l2_chain, subs, returned >>
     /\ ProcFrame

\* WITHDRAWING_ETH_FROM_EXCHANGE: withdraw_eth to Optimism or Base.
WithdrawEth ==
  /\ AtBlock("WITHDRAWING_ETH_FROM_EXCHANGE")
  /\ IF Acc.settings.exchange \notin {"OKX", "Bitget"}
     THEN /\ Raise(Acc)
          /\ NoFault
          /\ UNCHANGED << source_l2_chain, subs, returned >>
     ELSE \/ /\ faults < MaxFaults
             /\ Faulted(1)
             /\ Raise(Acc)
             /\ UNCHANGED << source_l2_chain, subs, returned >>
          \/ \E chain \in {"Optimism", "Base"} :
               LET withdraw_id == FreshId("eth_withdrawal") IN
               /\ NoFault
               /\ source_l2_chain' = chain
               /\ Advance("WITHDRAWING_ETH_FROM_EXCHANGE",
                    update_status([Acc EXCEPT !.withdrawal_id_eth = withdraw_id],
                                  "WITHDRAWING_ETH_FROM_EXCHANGE_CONFIRMATION"))
               /\ subs' = Submitted("eth_withdrawal")
               /\ returned' = [returned EXCEPT !.withdrawal_id_eth = withdraw_id]
  /\ UNCHANGED status_file
  /\ ProcFrame

\* WITHDRAWING_ETH_FROM_EXCHANGE_CONFIRMATION:
\* wait_for_withdrawal_confirmation_eth returns False without a withdrawal id.
WaitEthWithdrawal ==
  /\ AtBlock("WITHDRAWING_ETH_FROM_EXCHANGE_CONFIRMATION")
  /\ IF ~Truthy(Acc.withdrawal_id_eth)
     THEN /\ Raise(Acc)
          /\ NoFault
     ELSE \E eth_withdrawal_status \in BOOLEAN :
            /\ MayFail(eth_withdrawal_status)
            /\ Faulted(IF eth_withdrawal_status THEN 0 ELSE 1)
            /\ IF ~eth_withdrawal_status
               THEN Raise(Acc)
               ELSE Advance("WITHDRAWING_ETH_FROM_EXCHANGE_CONFIRMATION",
                            update_status(Acc, "BRIDGING_FROM_L2"))
  /\ UNCHANGED << status_file, source_l2_chain, subs, returned >>
  /\ ProcFrame

\* What a chain write that broadcasts and then waits can end as: it returned a
\* hash (ok), or raised, with or without a transaction already broadcast.
WriteOutcomes == { o \in [ok : BOOLEAN, sent : BOOLEAN] : o.ok => o.sent }

\* BRIDGING_FROM_L2: bridge_from_l2 turns every exception of bridge_eth into
\* None; the hash it returns stays in the local tx_hash_bridge.  Reading the
\* unbound local source_l2_chain raises UnboundLocalError.  Nothing reads the
\* local after this block: its value is forgotten here ("unread").
Bridge ==
  /\ AtBlock("BRIDGING_FROM_L2")
  /\ source_l2_chain' = IF source_l2_chain = "unbound" THEN "unbound" ELSE "unread"
  /\ IF source_l2_chain = "unbound"
     THEN /\ Raise(Acc)
          /\ NoFault
          /\ UNCHANGED << subs, returned >>
     ELSE \E o \in WriteOutcomes :
            /\ MayFail(o.ok)
            /\ Faulted(IF o.ok THEN 0 ELSE 1)
            /\ subs' = IF o.sent THEN Submitted("bridge_tx") ELSE subs
            /\ LET tx_hash_bridge == IF o.ok THEN FreshId("bridge_tx") ELSE None IN
               IF ~Truthy(tx_hash_bridge)
               THEN /\ Raise(Acc)
                    /\ UNCHANGED returned
               ELSE /\ Advance("BRIDGING_FROM_L2",
                               update_status(Acc, "BTC_CONFIRMATIONS_PENDING"))
                    /\ returned' = [returned EXCEPT
                                      !.transaction_hash_bridge_eth = tx_hash_bridge]
  /\ UNCHANGED status_file
  /\ ProcFrame

\* BTC_CONFIRMATIONS_PENDING: mint_lbtc (claim_lbtc returns the hash or raises).
Mint ==
  /\ AtBlock("BTC_CONFIRMATIONS_PENDING")
  /\ \E ok \in BOOLEAN :
       /\ MayFail(ok)
       /\ Faulted(IF ok THEN 0 ELSE 1)
       /\ IF ok
          THEN LET tx_hash == FreshId("mint_tx") IN
               /\ Advance("BTC_CONFIRMATIONS_PENDING",
                    update_status([Acc EXCEPT !.transaction_hash_mint_lbtc = tx_hash],
                                  "LBTC_MINT"))
               /\ subs' = Submitted("mint_tx")
               /\ returned' = [returned EXCEPT !.transaction_hash_mint_lbtc = tx_hash]
          ELSE /\ Raise(Acc)
               /\ UNCHANGED << subs, returned >>
  /\ UNCHANGED << status_file, source_l2_chain >>
  /\ ProcFrame

\* What wait_for_transaction_receipt gives: status 1, another status, or no
\* receipt within the timeout.
ReceiptOutcomes == {"success", "failed", "timeout"}

\* Variant: any receipt counts, whatever its status.
receipt_confirmed_any(receipt) == receipt # "timeout"

\* wait_for_transaction_receipt returned and `receipt["status"] == 1`.
receipt_confirmed(receipt) == receipt = "success"

\* LBTC_MINT: confirm_lbtc_mint, when the node answers `receipt` for the
\* hash the account holds.
ConfirmMintOn(receipt) ==
  /\ AtBlock("LBTC_MINT")
  /\ Truthy(Acc.transaction_hash_mint_lbtc)
  /\ MayFail(receipt = "success")
  /\ Faulted(IF receipt = "success" THEN 0 ELSE 1)
  /\ IF receipt_confirmed(receipt)
     THEN Advance("LBTC_MINT", update_status(Acc, "LBTC_MINT_CONFIRMATION"))
     ELSE Raise(Acc)
  /\ subs' = IF receipt = "success" THEN Observed("mint_receipt") ELSE subs
  /\ UNCHANGED << status_file, source_l2_chain, returned >>
  /\ ProcFrame

\* LBTC_MINT: confirm_lbtc_mint raises at once without a hash.
ConfirmMint ==
  \/ \E receipt \in ReceiptOutcomes : ConfirmMintOn(receipt)
  \/ /\ AtBlock("LBTC_MINT")
     /\ ~Truthy(Acc.transaction_hash_mint_lbtc)
     /\ Raise(Acc)
     /\ NoFault
     /\ UNCHANGED << status_file, source_l2_chain, subs, returned >>
     /\ ProcFrame

\* LBTC_MINT_CONFIRMATION with restaking_LBTC == 1: restake_lbtc, that is
\* restake_to_defi_vault (approve_lbtc, then restake_lbtc_defi_vault).
Restake ==
  /\ AtBlock("LBTC_MINT_CONFIRMATION")
  /\ Acc.settings.restaking_LBTC = 1
  /\ IF \/ Acc.settings.selected_vault # "Defi_Vault"
        \/ ~approve_ceiling_parses(Acc.settings.max_gas_gwei)
     THEN /\ Raise(Acc)
          /\ NoFault
          /\ UNCHANGED << subs, returned >>
     ELSE LET approve_tx_hash == FreshId("approve_tx")
              restake_tx_hash == FreshId("restake_tx")
              acc1 == [Acc EXCEPT !.transaction_hash_approve_lbtc = approve_tx_hash]
              acc2 == [acc1 EXCEPT !.transaction_hash_restake_lbtc = restake_tx_hash]
              approved == Submitted("approve_tx")
              mined == [approved EXCEPT ![cur]["approve_mined"] = 1]
              restaked == [mined EXCEPT ![cur]["restake_tx"] = @ + 1]
          IN \/ \E sent \in BOOLEAN :          \* approve_lbtc raised
                  /\ faults < MaxFaults
                  /\ Faulted(1)
                  /\ Raise(Acc)
                  /\ subs' = IF sent THEN approved ELSE subs
                  /\ UNCHANGED returned
             \/ \E sent \in BOOLEAN :          \* restake_lbtc_defi_vault raised
                  /\ faults < MaxFaults
                  /\ Faulted(1)
                  /\ Raise(acc1)
                  /\ subs' = IF sent THEN restaked ELSE mined
                  /\ returned' = [returned EXCEPT
                                    !.transaction_hash_approve_lbtc = approve_tx_hash]
             \/ /\ NoFault
                /\ Advance("LBTC_MINT_CONFIRMATION",
                           update_status(acc2, "LBTC_RESTAKED"))
                /\ subs' = restaked
                /\ returned' = [returned EXCEPT
                                  !.transaction_hash_approve_lbtc = approve_tx_hash,
                                  !.transaction_hash_restake_lbtc = restake_tx_hash]
  /\ UNCHANGED << status_file, source_l2_chain >>
  /\ ProcFrame

\* LBTC_MINT_CONFIRMATION with restaking_LBTC != 1.
CompleteNoRestake ==
  /\ AtBlock("LBTC_MINT_CONFIRMATION")
  /\ Acc.settings.restaking_LBTC # 1
  /\ Advance("LBTC_MINT_CONFIRMATION", update_status(Acc, "COMPLETED"))
  /\ NoFault
  /\ UNCHANGED << status_file, source_l2_chain, subs, returned >>
  /\ ProcFrame

\* LBTC_RESTAKED: confirm_restake, when the node answers `receipt` for the
\* hash the account holds, then update_status(LBTC_RESTAKED_CONFIRMATION).
ConfirmRestakeOn(receipt) ==
  /\ AtBlock("LBTC_RESTAKED")
  /\ Truthy(Acc.transaction_hash_restake_lbtc)
  /\ MayFail(receipt = "success")
  /\ Faulted(IF receipt = "success" THEN 0 ELSE 1)
  /\ IF receipt_confirmed(receipt)
     THEN /\ accounts' = [accounts EXCEPT
                ![cur] = update_status(Acc, "LBTC_RESTAKED_CONFIRMATION")]
          /\ pc' = "restake_confirmed"
          /\ UNCHANGED << fail, outcome, cur, pos >>
     ELSE Raise(Acc)
  /\ subs' = IF receipt = "success" THEN Observed("restake_receipt") ELSE subs
  /\ UNCHANGED << status_file, source_l2_chain, returned >>
  /\ ProcFrame

\* LBTC_RESTAKED: confirm_restake raises at once without a hash.
ConfirmRestake ==
  \/ \E receipt \in ReceiptOutcomes : ConfirmRestakeOn(receipt)
  \/ /\ AtBlock("LBTC_RESTAKED")
     /\ ~Truthy(Acc.transaction_hash_restake_lbtc)
     /\ Raise(Acc)
     /\ NoFault
     /\ UNCHANGED << status_file, source_l2_chain, subs, returned >>
     /\ ProcFrame

\* ... update_status(COMPLETED), the last statement of the LBTC_RESTAKED block.
CompleteRestake ==
  /\ pc = "restake_confirmed"
  /\ accounts' = [accounts EXCEPT ![cur] = update_status(Acc, "COMPLETED")]
  /\ pc' = "proc"
  /\ pos' = Block["LBTC_RESTAKED"] + 1
  /\ NoFault
  /\ UNCHANGED << status_file, source_l2_chain, subs, returned, fail, outcome, cur >>
  /\ ProcFrame

\* No block from pos on tests the status: parser.save_status, return.
FinalSave ==
  /\ pc = "proc"
  /\ pos > Block[Acc.status]
  /\ status_file' = save_status(accounts)
  /\ Return
  /\ NoFault
  /\ UNCHANGED << accounts, subs >>
  /\ ProcFrame

\* except Exception in process_account: log, parser.save_status, raise.
Except ==
  /\ pc = "except"
  /\ status_file' = save_status(accounts)
  /\ pc' = "main_except"
  /\ UNCHANGED << settings, accounts, cur, pos, source_l2_chain, run, faults, clean,
                  subs, start_status, invoked, outcome, fail, returned, rt, pl, br, ld, sv >>

\* ---------------------------------------------------------- specification
Init ==
  /\ settings \in Configurations
  /\ accounts = <<>>
  /\ status_file = NoFile
  /\ pc = "start"
  /\ cur = 1
  /\ pos = 1
  /\ source_l2_chain = "unbound"
  /\ run = 1
  /\ faults = 0
  /\ clean = FALSE
  /\ subs = [i \in 1..NumAccounts |-> [k \in Kinds |-> 0]]
  /\ start_status = [i \in 1..NumAccounts |-> "INIT"]
  /\ invoked = <<>>
  /\ outcome = [i \in 1..NumAccounts |-> "pending"]
  /\ fail = NoFail
  /\ returned = NoneReturned
  /\ rt = Idle
  /\ pl = Idle
  /\ br = Idle
  /\ ld = Idle
  /\ sv = Idle

Next ==
  \/ MainLoad
  \/ Invoke
  \/ MainFinish
  \/ MainExcept
  \/ Crash
  \/ Rerun
  \/ InitAddressPresent
  \/ InitGenerate
  \/ InitPromote
  \/ InitConfigured
  \/ Waiting
  \/ WithdrawBtc
  \/ WaitConfirmations
  \/ CheckEthBalance
  \/ CheckL2Balance
  \/ WithdrawEth
  \/ WaitEthWithdrawal
  \/ Bridge
  \/ Mint
  \/ ConfirmMint
  \/ Restake
  \/ CompleteNoRestake
  \/ ConfirmRestake
  \/ CompleteRestake
  \/ FinalSave
  \/ Except

Spec == Init /\ [][Next]_vars

\* ------------------------------------------------ a store left by earlier rows
\* The sheet had one more row when the program ran before: status.json holds
\* the record save_status wrote for it, under a private key that is on no row
\* of the sheet now.
FormerRow == 0

FormerAccount ==
  update_status(
    [ SoftAccount(parse_account_settings(FormerRow, 0, 0, "OKX", "Defi_Vault", None))
        EXCEPT !.withdrawal_id_btc = <<"btc_withdrawal", FormerRow, 1>> ],
    "BTC_DEPOSIT_INITIATED")

InitFormerStore ==
  /\ settings \in Configurations
  /\ accounts = <<>>
  /\ status_file = save_status(<<FormerAccount>>)
  /\ pc = "start"
  /\ cur = 1
  /\ pos = 1
  /\ source_l2_chain = "unbound"
  /\ run = 1
  /\ faults = 0
  /\ clean = FALSE
  /\ subs = [i \in 1..NumAccounts |-> [k \in Kinds |-> 0]]
  /\ start_status = [i \in 1..NumAccounts |-> "INIT"]
  /\ invoked = <<>>
  /\ outcome = [i \in 1..NumAccounts |-> "pending"]
  /\ fail = NoFail
  /\ returned = NoneReturned
  /\ rt = Idle
  /\ pl = Idle
  /\ br = Idle
  /\ ld = Idle
  /\ sv = Idle

SpecFormerStore == InitFormerStore /\ [][Next]_vars

\* ======================================================== retried writes
\* sdks/lombard_sdk/lbtc_operations.py: claim_lbtc, approve_lbtc and
\* restake_lbtc_defi_vault share one shape,
\*   for attempt in range(attempts): try: <write> except: <retry or raise>
\* rt follows one call of one of them on the first account.
RetryOps == {"claim_lbtc", "approve_lbtc", "restake_lbtc_defi_vault"}

\* `attempts = 3`
attempts == 3

\* Gas prices the node may report, in wei: half a gwei, 1 gwei, 2 gwei.
GasPrices == {500000000, to_wei(1), to_wei(2)}

\* The gate may wait without end; the waits counted are capped (the count
\* stops there, the gate does not).
MaxGateSleeps == 2

\* Counting up to a cap: the counter stays at the cap.
UpTo(n, cap) == IF n < cap THEN n + 1 ELSE n

NoError == [attempt |-> -1, cause |-> "none"]

\* The call as it starts: `for attempt in range(attempts)` at attempt 0.
RetryStart(op) ==
  [ op |-> op,
    at |-> "try",
    attempt |-> 0,
    gas_price |-> 0,
    tries |-> 0,
    backoffs |-> 0,
    gate_sleeps |-> 0,
    broadcasts |-> 0,
    errors |-> <<>>,
    raised |-> NoError,
    tx_hash |-> None,
    fee |-> 0,
    fee_source |-> "none" ]

\* The ceiling the call reads: self.account.settings.get('max_gas_gwei').
RetryCeiling == settings[1].max_gas_gwei

\* Lines 72-74, 153-155, 205-207: only approve_lbtc goes through str().
ceiling_parses(op, max_gas) ==
  IF op = "approve_lbtc" THEN approve_ceiling_parses(max_gas) ELSE TRUE

\* approve_lbtc and restake_lbtc_defi_vault wait for the receipt inside the
\* try block; claim_lbtc returns right after send_raw_transaction.
waits_for_receipt(op) == op \in {"approve_lbtc", "restake_lbtc_defi_vault"}

\* Variant: the test is one off (`attempt == attempts`), so no attempt is last.
is_last_attempt_off_by_one(attempt) == attempt = attempts

\* `if attempt == attempts - 1: raise`
is_last_attempt(attempt) == attempt = attempts - 1

\* except Exception as e: log; re-raise e on the last attempt, else go on to
\* the sleep before the next attempt.
RetryExcept(r, cause) ==
  LET e == [attempt |-> r.attempt, cause |-> cause]
      r1 == [r EXCEPT !.errors = Append(@, e)]
  IN IF is_last_attempt(r.attempt)
     THEN [r1 EXCEPT !.at = "raised", !.raised = e]
     ELSE [r1 EXCEPT !.at = "backoff"]

\* Variant: a sample that passes the gate broadcasts at once.
AfterSample_broadcasting(r, p) ==
  [r EXCEPT !.gas_price = p,
            !.broadcasts = IF gate_holds(RetryCeiling, p) THEN @ ELSE @ + 1,
            !.at = IF gate_holds(RetryCeiling, p) THEN "gate" ELSE "submit"]

\* After a price sample: wait at the gate or go on to build the transaction.
AfterSample(r, p) ==
  [r EXCEPT !.gas_price = p,
            !.at = IF gate_holds(RetryCeiling, p) THEN "gate" ELSE "submit"]

RetryFrame ==
  UNCHANGED << settings, accounts, status_file, pc, cur, pos, source_l2_chain,
               run, faults, clean, subs, start_status, invoked, outcome, fail,
               returned, pl, br, ld, sv >>

\* An attempt begins: the read before the write (deposits, or the LBTC
\* balance), the ceiling, the first gas price sample.
RetryTry ==
  /\ rt.op \in RetryOps
  /\ rt.at = "try"
  /\ rt.attempt < attempts
  /\ LET r == [rt EXCEPT !.tries = @ + 1] IN
     \/ rt' = RetryExcept(r, "read")
     \/ /\ ~ceiling_parses(rt.op, RetryCeiling)
        /\ rt' = RetryExcept(r, "ceiling")
     \/ /\ ceiling_parses(rt.op, RetryCeiling)
        /\ \/ rt' = RetryExcept(r, "gas_price")
           \/ \E p \in GasPrices : rt' = AfterSample(r, p)
  /\ RetryFrame

\* In the gate: asyncio.sleep(60), then a new sample.
RetryGate ==
  /\ rt.op \in RetryOps
  /\ rt.at = "gate"
  /\ LET r == [rt EXCEPT !.gate_sleeps = UpTo(@, MaxGateSleeps)] IN
     \/ rt' = RetryExcept(r, "gas_price")
     \/ \E p \in GasPrices : rt' = AfterSample(r, p)
  /\ RetryFrame

\* Past the gate: build (estimate_gas), sign, send_raw_transaction and, for
\* approve and restake, wait_for_transaction_receipt.  maxFeePerGas is the
\* local gas_price, last assigned by the gate (or by the sample before it);
\* no price is read between the gate and build_transaction.
RetrySubmit ==
  /\ rt.op \in RetryOps
  /\ rt.at = "submit"
  /\ LET sent == [rt EXCEPT !.broadcasts = @ + 1, !.fee = rt.gas_price,
                            !.fee_source = "gate_sample"] IN
     \/ rt' = RetryExcept(rt, "build")
     \/ rt' = RetryExcept(rt, "send")
     \/ /\ waits_for_receipt(rt.op)
        /\ rt' = RetryExcept(sent, "receipt")
     \/ rt' = [sent EXCEPT !.at = "returned",
                           !.tx_hash = <<rt.op, sent.broadcasts>>]
  /\ RetryFrame

\* asyncio.sleep(random.randint(5, 20)) is over: the next attempt.
RetryBackoff ==
  /\ rt.op \in RetryOps
  /\ rt.at = "backoff"
  /\ rt' = [rt EXCEPT !.backoffs = @ + 1, !.attempt = @ + 1, !.at = "try"]
  /\ RetryFrame

\* Everything but rt, pl, br, ld and sv, as main has it before it starts.
MainIdle ==
  /\ accounts = <<>>
  /\ status_file = NoFile
  /\ pc = "start"
  /\ cur = 1
  /\ pos = 1
  /\ source_l2_chain = "unbound"
  /\ run = 1
  /\ faults = 0
  /\ clean = FALSE
  /\ subs = [i \in 1..NumAccounts |-> [k \in Kinds |-> 0]]
  /\ start_status = [i \in 1..NumAccounts |-> "INIT"]
  /\ invoked = <<>>
  /\ outcome = [i \in 1..NumAccounts |-> "pending"]
  /\ fail = NoFail
  /\ returned = NoneReturned

\* The ceilings of the retried writes: unset, 0 and 1 gwei.
RetryCeilings == GasCeilings \cup {<<0>>}

InitRetry ==
  /\ settings \in { [i \in 1..NumAccounts |->
                       parse_account_settings(i, 0, 1, ExchangeOfRow(i),
                                              "Defi_Vault", max_gas)] :
                      max_gas \in RetryCeilings }
  /\ MainIdle
  /\ rt \in {RetryStart(op) : op \in RetryOps}
  /\ pl = Idle
  /\ br = Idle
  /\ ld = Idle
  /\ sv = Idle

NextRetry ==
  \/ RetryTry
  \/ RetryGate
  \/ RetrySubmit
  \/ RetryBackoff

SpecRetry == InitRetry /\ [][NextRetry]_vars

\* ================================================================== polls
\* The loops that fetch an external status a bounded number of times:
\*   deposit  wait_for_confirmations (main.py), over get_deposits_by_address
\*   OKX      wait_for_withdrawal_confirmation_eth, OKX branch
\*   Bitget   wait_for_withdrawal_confirmation_eth, Bitget branch
\*   bridge   the destination status loop at the end of RelayAPI.bridge_eth
\* pl follows one call of one of them.
PollKinds == {"deposit", "OKX", "Bitget", "bridge"}

\* `max_checks = 8`, `for _ in range(6)`, `for _ in range(3)`
max_checks == 8

withdrawal_checks == 6

bridge_checks == 3

Checks(kind) ==
  CASE kind = "deposit" -> max_checks
    [] kind \in {"OKX", "Bitget"} -> withdrawal_checks
    [] kind = "bridge" -> bridge_checks

\* A deposit record of the Lombard API; a flag tells whether the key is there.
DepositRecords ==
  [ address : {"mine", "other"},
    notarization_wait_dur : BOOLEAN,
    raw_payload : BOOLEAN,
    signature : BOOLEAN ]

MaxDeposits == 2

DepositLists == UNION { [1..n -> DepositRecords] : n \in 0..MaxDeposits }

\* JSON bodies of GET /api/v1/address/outputs/{address}: an object with or
\* without 'outputs', or a body that is no object (data.get raises).
LombardBodies ==
  { [is_object |-> TRUE, has_outputs |-> TRUE, outputs |-> l] : l \in DepositLists }
    \cup { [is_object |-> o, has_outputs |-> FALSE, outputs |-> <<>>] : o \in BOOLEAN }

\* LombardAPI.get_deposits_by_address after _make_request returned data:
\* data.get('outputs', []) -- [] is returned if that raises -- and then the
\* debug line formats deposits[-1], an IndexError on an empty list.
get_deposits_by_address(data) ==
  IF ~data.is_object
  THEN [raised |-> "none", deposits |-> <<>>]
  ELSE LET deposits == IF data.has_outputs THEN data.outputs ELSE <<>> IN
       IF Len(deposits) = 0
       THEN [raised |-> "IndexError", deposits |-> <<>>]
       ELSE [raised |-> "none", deposits |-> deposits]

\* The scan of wait_for_confirmations: a deposit to the account's address
\* that is not waiting for notarization and has payload and signature.
deposit_confirmed(withdrawals) ==
  \E n \in 1..Len(withdrawals) :
    /\ withdrawals[n].address = "mine"
    /\ ~withdrawals[n].notarization_wait_dur
    /\ withdrawals[n].raw_payload
    /\ withdrawals[n].signature

\* OKX_API.get_withdrawal_status: data[0] of a code '0' answer, None otherwise
\* (an error code or any exception).  "none" stands for None.
OkxStates == {"none", "Withdrawal complete", "Waiting withdrawal"}

\* Bitget_API.get_withdrawal_status: _request raises unless code is '00000';
\* the answer has msg and the list data, whose first record has the status
\* of the withdrawal.
BitgetWithdrawalStatuses == {"pending", "fail", "success"}

BitgetAnswers ==
  [ msg : {"success", "other"}, records : 0..1, status : BitgetWithdrawalStatuses ]

\* RelayAPI.check_dest_chain_balance: the JSON answer; "empty" is a falsy one.
BridgeStatuses == {"empty", "success", "failure", "refund", "pending"}

PollStart(kind, has_id) ==
  [ kind |-> kind,
    has_id |-> has_id,
    at |-> "check",
    checks |-> 0,
    sleeps |-> 0,
    last |-> "none",
    state |-> "none",     \* the withdrawal's own state in the last answer
    result |-> "pending" ]

PollFrame ==
  UNCHANGED << settings, accounts, status_file, pc, cur, pos, source_l2_chain,
               run, faults, clean, subs, start_status, invoked, outcome, fail,
               returned, rt, br, ld, sv >>

\* How an iteration ends.
PollSuccess(p, seen) == [p EXCEPT !.at = "done", !.result = "success", !.last = seen]

PollRaise(p, error, seen) ==
  [p EXCEPT !.at = "done", !.result = error, !.last = seen]

PollWait(p, seen) == [p EXCEPT !.at = "sleep", !.last = seen]

PollGoOn(p, seen) == [p EXCEPT !.last = seen]

\* One iteration of wait_for_confirmations.
DepositCheck(p) ==
  \/ pl' = PollRaise(p, "request_error", "nothing")
  \/ \E data \in LombardBodies :
       LET got == get_deposits_by_address(data) IN
       IF got.raised # "none"
       THEN pl' = PollRaise(p, got.raised, "no_deposits")
       ELSE IF Len(got.deposits) > 0 /\ deposit_confirmed(got.deposits)
            THEN pl' = PollSuccess(p, "confirmed")
            ELSE pl' = PollWait(p, IF Len(got.deposits) > 0 THEN "unconfirmed"
                                                            ELSE "no_deposits")

\* One iteration of the OKX loop: no sleep when the status is None.
OkxCheck(p) ==
  \E state \in OkxStates :
    pl' = IF state = "none" THEN PollGoOn(p, state)
          ELSE IF state = "Withdrawal complete"
               THEN [PollSuccess(p, state) EXCEPT !.state = state]
          ELSE [PollWait(p, state) EXCEPT !.state = state]

\* One iteration of the Bitget loop: the log line reads data[0] first, then
\* msg == 'success' decides.
BitgetCheck(p) ==
  \/ pl' = PollRaise(p, "request_error", "nothing")
  \/ \E answer \in BitgetAnswers :
       pl' = IF answer.records = 0 THEN PollRaise(p, "IndexError", answer.msg)
             ELSE IF answer.msg = "success"
                  THEN [PollSuccess(p, answer.msg) EXCEPT !.state = answer.status]
             ELSE [PollWait(p, answer.msg) EXCEPT !.state = answer.status]

\* One iteration of the status loop of bridge_eth: success, failure and
\* refund leave the loop; a falsy answer goes on without a sleep.
BridgeCheck(p) ==
  \/ pl' = PollRaise(p, "request_error", "nothing")
  \/ \E status \in BridgeStatuses :
       pl' = CASE status = "empty" -> PollGoOn(p, status)
               [] status = "success" -> PollSuccess(p, status)
               [] status \in {"failure", "refund"} ->
                    [p EXCEPT !.at = "done", !.result = "terminal", !.last = status]
               [] OTHER -> PollWait(p, status)

\* The exchange polls return False at once without a withdrawal id.
PollNoId ==
  /\ pl.kind \in {"OKX", "Bitget"}
  /\ pl.at = "check"
  /\ ~pl.has_id
  /\ pl' = [pl EXCEPT !.at = "done", !.result = "no_id"]
  /\ PollFrame

\* The body of the loop: one fetch and what it leads to.
PollCheck ==
  /\ pl.kind \in PollKinds
  /\ pl.at = "check"
  /\ pl.has_id
  /\ pl.checks < Checks(pl.kind)
  /\ LET p == [pl EXCEPT !.checks = @ + 1] IN
     CASE pl.kind = "deposit" -> DepositCheck(p)
       [] pl.kind = "OKX" -> OkxCheck(p)
       [] pl.kind = "Bitget" -> BitgetCheck(p)
       [] pl.kind = "bridge" -> BridgeCheck(p)
  /\ PollFrame

\* The sleep that ends an iteration.
PollSleep ==
  /\ pl.kind \in PollKinds
  /\ pl.at = "sleep"
  /\ pl' = [pl EXCEPT !.sleeps = @ + 1, !.at = "check"]
  /\ PollFrame

\* The loop ran out: the timeout failure (raise, or return False which
\* process_account turns into an exception).
PollExhausted ==
  /\ pl.kind \in PollKinds
  /\ pl.at = "check"
  /\ pl.has_id
  /\ pl.checks = Checks(pl.kind)
  /\ pl' = [pl EXCEPT !.at = "done", !.result = "timeout"]
  /\ PollFrame

InitPoll ==
  /\ settings = [i \in 1..NumAccounts |->
                   parse_account_settings(i, 0, 0, ExchangeOfRow(i), "NoVault", None)]
  /\ MainIdle
  /\ rt = Idle
  /\ br = Idle
  /\ ld = Idle
  /\ sv = Idle
  /\ pl \in {PollStart(kind, has_id) :
               kind \in PollKinds, has_id \in BOOLEAN} \ 
            {PollStart(kind, FALSE) : kind \in {"deposit", "bridge"}}

NextPoll ==
  \/ PollNoId
  \/ PollCheck
  \/ PollSleep
  \/ PollExhausted

SpecPoll == InitPoll /\ [][NextPoll]_vars

\* ============================================== RelayAPI.bridge_eth
\* One call of bridge_eth on account 1: the configuration, the capacity
\* loop, the quote, the gas gate, the fee, the source transaction, its
\* receipt and the status checks.

\* Amounts of ETH, in units of the smallest amount told apart.
BridgeAmounts == {1, 2}

\* What GET /config/v2 answers: an empty object, or an object with `enabled`,
\* solver.capacityPerRequest and user.maxBridgeAmount.
BridgeConfigs ==
  [ present : BOOLEAN, enabled : BOOLEAN,
    capacityPerRequest : BridgeAmounts, maxBridgeAmount : BridgeAmounts ]

NoConfig ==
  [ present |-> FALSE, enabled |-> FALSE,
    capacityPerRequest |-> 1, maxBridgeAmount |-> 1 ]

\* Variant: the capacity test accepts an amount equal to the capacity.
check_capacity_per_request_or_equal(bridge_config, amount_to_bridge) ==
  bridge_config.capacityPerRequest >= amount_to_bridge

\* return Web3.to_wei(capacityPerRequest, 'wei') > amount_to_bridge
check_capacity_per_request(bridge_config, amount_to_bridge) ==
  bridge_config.capacityPerRequest > amount_to_bridge

\* baseFeePerGas of the latest block, in wei (0: the block has none).
BaseFees == {0, 500000000, to_wei(1)}

\* eth.max_priority_fee, in wei.
PriorityFees == {0, 100000000}

\* int(round(max_priority_fee * 1.3))
priority_fee_with_margin(max_priority_fee) == (max_priority_fee * 13 + 5) \div 10

\* The waits counted in the capacity loop (the count stops there, the loop
\* does not).
MaxCapacityWaits == 2

BridgeStart ==
  [ op |-> "bridge_eth",
    at |-> "config",
    bridge_config |-> NoConfig,
    amount_to_bridge |-> 0,
    config_fetches |-> 0,
    capacity_waits |-> 0,
    quotes |-> 0,
    observed |-> <<>>,
    gas_price |-> 0,
    gate_sleeps |-> 0,
    fee |-> 0,
    fee_source |-> "none",
    broadcasts |-> 0,
    receipt |-> "none",
    checks |-> 0,
    status |-> "unbound",
    received_flag |-> FALSE,
    error |-> "none",
    result |-> "",
    tx_hash_bridge |-> "unset",
    account_status |-> "BRIDGING_FROM_L2",
    block |-> "running" ]

BridgeFrame ==
  UNCHANGED << settings, accounts, status_file, pc, cur, pos, source_l2_chain,
               run, faults, clean, subs, start_status, invoked, outcome, fail,
               returned, rt, pl, ld, sv >>

\* The call ends by an exception.
BridgeRaise(b, error) == [b EXCEPT !.at = "raised", !.error = error]

\* Lines 118-122: the configuration is fetched once, before the loop; the
\* amount is read from it before it is tested for emptiness.
BridgeGetConfig ==
  /\ br.op = "bridge_eth"
  /\ br.at = "config"
  /\ \/ br' = BridgeRaise(br, "HTTPError")
     \/ \E c \in BridgeConfigs :
          LET b == [br EXCEPT !.config_fetches = @ + 1, !.bridge_config = c] IN
          br' = IF ~c.present
                THEN BridgeRaise(b, "KeyError")
                ELSE [b EXCEPT !.amount_to_bridge = c.maxBridgeAmount,
                               !.at = "loop"]
  /\ BridgeFrame

\* What POST /quote gives: an HTTP error (raise_for_status), an empty
\* object, or the quote.
BridgeQuotes == {"HTTPError", "empty", "data"}

\* Variant: an empty quote is taken for a quote.
bridge_data_is_empty_never(bridge_data) == FALSE

\* `if not bridge_data`
bridge_data_is_empty(bridge_data) == bridge_data = "empty"

\* Lines 123-143: one iteration of `while True`.  `observed` keeps what the
\* iteration saw, in the order it saw it.
BridgeLoop ==
  /\ br.op = "bridge_eth"
  /\ br.at = "loop"
  /\ IF ~br.bridge_config.enabled
     THEN br' = BridgeRaise([br EXCEPT !.observed = <<"disabled">>],
                            "RuntimeError")
     ELSE IF ~check_capacity_per_request(br.bridge_config, br.amount_to_bridge)
     THEN br' = [br EXCEPT !.observed = <<"enabled", "over_capacity">>,
                           !.at = "capacity_sleep"]
     ELSE \E bridge_data \in BridgeQuotes :
            LET seen == <<"enabled", "within_capacity">>
                b == [br EXCEPT !.quotes = @ + 1] IN
            br' = IF bridge_data = "HTTPError"
                  THEN BridgeRaise([b EXCEPT !.observed =
                                      Append(seen, "quote_failed")],
                                   "HTTPError")
                  ELSE IF bridge_data_is_empty(bridge_data)
                  THEN BridgeRaise([b EXCEPT !.observed =
                                      Append(seen, "quote_empty")],
                                   "RuntimeError")
                  ELSE [b EXCEPT !.observed =
                                   Append(seen, IF bridge_data = "empty"
                                                THEN "quote_empty"
                                                ELSE "quote"),
                                 !.at = "sample"]
  /\ BridgeFrame

\* Lines 131-132: asyncio.sleep(random.randint(5, 20)) is over; `continue`
\* goes back to the head of the loop with the same bridge_config and amount.
BridgeCapacitySleep ==
  /\ br.op = "bridge_eth"
  /\ br.at = "capacity_sleep"
  /\ br' = [br EXCEPT !.capacity_waits = UpTo(@, MaxCapacityWaits),
                      !.at = "loop"]
  /\ BridgeFrame

\* After a price sample: wait at the gate or go on to the fee.
BridgeAfterSample(b, p) ==
  [b EXCEPT !.gas_price = p,
            !.at = IF gate_holds(RetryCeiling, p) THEN "gate" ELSE "fee"]

\* Lines 148-152: the ceiling and the first gas price sample.
BridgeSample ==
  /\ br.op = "bridge_eth"
  /\ br.at = "sample"
  /\ \/ br' = BridgeRaise(br, "gas_price")
     \/ \E p \in GasPrices : br' = BridgeAfterSample(br, p)
  /\ BridgeFrame

\* Lines 156-159: asyncio.sleep(60), then a new sample.
BridgeGate ==
  /\ br.op = "bridge_eth"
  /\ br.at = "gate"
  /\ LET b == [br EXCEPT !.gate_sleeps = UpTo(@, MaxGateSleeps)] IN
     \/ br' = BridgeRaise(b, "gas_price")
     \/ \E p \in GasPrices : br' = BridgeAfterSample(b, p)
  /\ BridgeFrame

\* Lines 162-165: the base fee of the latest block and the priority fee, both
\* read after the gate.
BridgeFee ==
  /\ br.op = "bridge_eth"
  /\ br.at = "fee"
  /\ \/ br' = BridgeRaise(br, "get_block")
     \/ \E base_fee \in BaseFees, max_priority_fee \in PriorityFees :
          br' = IF base_fee = 0
                THEN BridgeRaise(br, "Failed to get base fee")
                ELSE [br EXCEPT
                        !.fee = base_fee +
                                priority_fee_with_margin(max_priority_fee),
                        !.fee_source = "fresh_read",
                        !.at = "send"]
  /\ BridgeFrame

\* Lines 168-185: build (estimate_gas), sign, send_raw_transaction.
BridgeSend ==
  /\ br.op = "bridge_eth"
  /\ br.at = "send"
  /\ \/ br' = BridgeRaise(br, "estimate_gas")
     \/ br' = BridgeRaise(br, "send_raw_transaction")
     \/ br' = [br EXCEPT !.broadcasts = @ + 1, !.at = "receipt"]
  /\ BridgeFrame

\* Lines 188-201: the receipt wait.  The bare raise of a failed receipt and
\* the timeout are both caught by `except Exception`, which logs; the call
\* goes on to the status checks either way.
BridgeReceipt ==
  /\ br.op = "bridge_eth"
  /\ br.at = "receipt"
  /\ \E r \in ReceiptOutcomes : br' = [br EXCEPT !.receipt = r, !.at = "poll"]
  /\ BridgeFrame

\* Variant: only `failure` ends the status checks; `refund` is waited on
\* like any other status.
bridge_status_is_fatal_failure_only(status) == status = "failure"

\* `elif status['status'] == 'failure'` and `elif status['status'] ==
\* 'refund'`: both log and break.
bridge_status_is_fatal(status) == status \in {"failure", "refund"}

\* Lines 202-220: one iteration of `for _ in range(3)`.
BridgePoll ==
  /\ br.op = "bridge_eth"
  /\ br.at = "poll"
  /\ br.checks < bridge_checks
  /\ LET b == [br EXCEPT !.checks = @ + 1] IN
     \/ br' = BridgeRaise(b, "HTTPError")
     \/ \E s \in BridgeStatuses :
          br' = IF s = "success"
                THEN [b EXCEPT !.status = s, !.received_flag = TRUE,
                               !.at = "after"]
                ELSE IF bridge_status_is_fatal(s)
                THEN [b EXCEPT !.status = s, !.at = "after"]
                ELSE [b EXCEPT !.status = s,
                               !.at = IF b.checks = bridge_checks
                                      THEN "after" ELSE "poll"]
  /\ BridgeFrame

\* Lines 221-229: the bare raise, or the transaction hash.
BridgeFinish ==
  /\ br.op = "bridge_eth"
  /\ br.at = "after"
  /\ br' = IF ~br.received_flag
           THEN BridgeRaise(br, "RuntimeError")
           ELSE [br EXCEPT !.at = "returned", !.result = "tx_hash"]
  /\ BridgeFrame

\* bridge_from_l2 (main.py): the hash bridge_eth returned, or None (here "")
\* when bridge_eth raised, whatever it raised.
BridgeFromL2 ==
  /\ br.op = "bridge_eth"
  /\ br.at \in {"returned", "raised"}
  /\ br.tx_hash_bridge = "unset"
  /\ br' = [br EXCEPT !.tx_hash_bridge =
                        IF br.at = "returned" THEN br.result ELSE ""]
  /\ BridgeFrame

\* The BRIDGING_FROM_L2 block of process_account after bridge_from_l2: the
\* bare raise without a hash, else update_status(BTC_CONFIRMATIONS_PENDING).
BridgingBlock ==
  /\ br.op = "bridge_eth"
  /\ br.tx_hash_bridge # "unset"
  /\ br.block = "running"
  /\ br' = IF br.tx_hash_bridge = ""
           THEN [br EXCEPT !.block = "raised"]
           ELSE [br EXCEPT !.block = "advanced",
                           !.account_status = "BTC_CONFIRMATIONS_PENDING"]
  /\ BridgeFrame

InitBridge ==
  /\ settings \in { [i \in 1..NumAccounts |->
                       parse_account_settings(i, 0, 0, ExchangeOfRow(i),
                                              "NoVault", max_gas)] :
                      max_gas \in RetryCeilings }
  /\ MainIdle
  /\ rt = Idle
  /\ pl = Idle
  /\ br = BridgeStart
  /\ ld = Idle
  /\ sv = Idle

NextBridge ==
  \/ BridgeGetConfig
  \/ BridgeLoop
  \/ BridgeCapacitySleep
  \/ BridgeSample
  \/ BridgeGate
  \/ BridgeFee
  \/ BridgeSend
  \/ BridgeReceipt
  \/ BridgePoll
  \/ BridgeFinish
  \/ BridgeFromL2
  \/ BridgingBlock

SpecBridge == InitBridge /\ [][NextBridge]_vars

\* The event loop runs one call at a time and resumes it after every sleep
\* and every answered request: a step that can be taken is taken.
SpecBridgeFair == SpecBridge /\ WF_vars(NextBridge)

\* ============================================================ start of main
\* main.py main() up to its loop: UserSettingsParser(settings_file) runs
\* load_settings and load_status, main calls load_status again and takes the
\* accounts; any exception in between is logged and main returns.

\* What status.json may hold for a row: no record, a record without a status,
\* or a record with one of these status values.
StoredStatusValues == {"", "Unknown Status", AccountStatus["LBTC_MINT"]}

RecordShapes == {"no record", "no status"} \cup StoredStatusValues

StoredRecord(i, shape) ==
  IF shape = "no status"
  THEN [btc_address |-> ConfigAddress(i)]
  ELSE [status |-> shape, btc_address |-> ConfigAddress(i)]

\* status.json: absent, not JSON, or a JSON object of records by private key.
StatusFiles ==
  { [kind |-> "absent", data |-> <<>>], [kind |-> "malformed", data |-> <<>>] }
  \cup
  { [kind |-> "json",
     data |-> [ key \in {PrivateKey(i) : i \in {j \in 1..NumAccounts :
                                                  shapes[j] # "no record"}} |->
                  StoredRecord(key[2], shapes[key[2]]) ] ] :
      shapes \in [1..NumAccounts -> RecordShapes] }

\* The sheet: for each row, whether parse_account_settings accepts it.
Sheets == [1..NumAccounts -> BOOLEAN]

\* data.get('status') of the record of an account ("" when there is none).
StoredStatus(acc, status_data) ==
  LET private_key == acc.settings.private_key IN
  IF private_key \in DOMAIN status_data /\ "status" \in DOMAIN status_data[private_key]
  THEN status_data[private_key].status
  ELSE ""

\* `if account_status: account.status = AccountStatus(account_status)`:
\* ValueError for a non-empty value of no member.
status_loads(acc, status_data) ==
  StoredStatus(acc, status_data) # "" => IsStatusValue(StoredStatus(acc, status_data))

\* Variant: a file that is not JSON is taken as an empty object.
status_file_loads_if_json(accts, file) ==
  \A i \in DOMAIN accts : status_loads(accts[i], file.data)

\* load_status goes through: json.load parses the file and every status
\* value met is the value of a member.
status_file_loads(accts, file) ==
  /\ file.kind # "malformed"
  /\ \A i \in DOMAIN accts : status_loads(accts[i], file.data)

LoadStart(sheet, file) ==
  [ op |-> "main",
    at |-> "settings",
    sheet |-> sheet,
    file |-> file,
    k |-> 1,
    accounts |-> <<>>,        \* parser.accounts
    main_accounts |-> <<>>,   \* accounts of main: parser.get_accounts()
    invoked |-> <<>>,         \* process_account was called for these
    writes |-> 0,             \* save_status calls
    error |-> "" ]

LoadFrame ==
  UNCHANGED << settings, accounts, status_file, pc, cur, pos, source_l2_chain,
               run, faults, clean, subs, start_status, invoked, outcome, fail,
               returned, rt, pl, br, sv >>

\* load_settings, one turn of `for index in main_df.index`.
LoadRow ==
  /\ ld.op = "main"
  /\ ld.at = "settings"
  /\ ld.k <= NumAccounts
  /\ ld' = IF ld.sheet[ld.k]
           THEN [ld EXCEPT
                   !.accounts = Append(@, SoftAccount(
                       parse_account_settings(ld.k, 0, 0, ExchangeOfRow(ld.k),
                                              "Defi_Vault", None))),
                   !.k = @ + 1]
           ELSE [ld EXCEPT !.at = "abort", !.error = "Error loading settings"]
  /\ LoadFrame

\* load_settings returns; __init__ goes on to load_status.
LoadSettingsDone ==
  /\ ld.op = "main"
  /\ ld.at = "settings"
  /\ ld.k > NumAccounts
  /\ ld' = [ld EXCEPT !.at = "status_init"]
  /\ LoadFrame

\* load_status, called by __init__ and then by main.
LoadStatus ==
  /\ ld.op = "main"
  /\ ld.at \in {"status_init", "status_main"}
  /\ ld' = IF ld.file.kind # "absent" /\ ~status_file_loads(ld.accounts, ld.file)
           THEN [ld EXCEPT !.at = "abort", !.error = "Error initializing accounts"]
           ELSE LET loaded == IF ld.file.kind = "absent"
                              THEN ld.accounts
                              ELSE [i \in DOMAIN ld.accounts |->
                                      load_account(ld.accounts[i], ld.file.data)]
                IN IF ld.at = "status_init"
                   THEN [ld EXCEPT !.accounts = loaded, !.at = "status_main"]
                   ELSE [ld EXCEPT !.accounts = loaded, !.at = "loop",
                                   !.main_accounts = loaded, !.k = 1]
  /\ LoadFrame

\* except Exception in main: log "Error initializing accounts", return.
LoadAbort ==
  /\ ld.op = "main"
  /\ ld.at = "abort"
  /\ ld' = [ld EXCEPT !.at = "returned"]
  /\ LoadFrame

\* for account in accounts: process_account(...), which saves the status on
\* every path but the return of the BTC_ADDRESS_GENERATED_WAITING block.
LoadProcess ==
  /\ ld.op = "main"
  /\ ld.at = "loop"
  /\ ld.k <= Len(ld.main_accounts)
  /\ \E saves \in BOOLEAN :
       ld' = [ld EXCEPT !.invoked = Append(@, ld.k),
                        !.writes = IF saves THEN @ + 1 ELSE @,
                        !.k = @ + 1]
  /\ LoadFrame

LoadFinish ==
  /\ ld.op = "main"
  /\ ld.at = "loop"
  /\ ld.k > Len(ld.main_accounts)
  /\ ld' = [ld EXCEPT !.at = "returned"]
  /\ LoadFrame

InitLoad ==
  /\ settings \in { [i \in 1..NumAccounts |->
                       parse_account_settings(i, 0, 0, ExchangeOfRow(i),
                                              "Defi_Vault", None)] }
  /\ MainIdle
  /\ rt = Idle
  /\ pl = Idle
  /\ br = Idle
  /\ ld \in {LoadStart(sheet, file) : sheet \in Sheets, file \in StatusFiles}
  /\ sv = Idle

NextLoad ==
  \/ LoadRow
  \/ LoadSettingsDone
  \/ LoadStatus
  \/ LoadAbort
  \/ LoadProcess
  \/ LoadFinish

SpecLoad == InitLoad /\ [][NextLoad]_vars

\* ===================================================== writes of the store
\* The loop of main (main.py:518-525) over process_account (main.py:362-463)
\* when save_status may fail: the save at the end of the try block, the save
\* of the except clause of process_account, the save of the except clause of
\* main.  A failed save raises out of the clause it stands in.  The workflow
\* of an account is kept as the number of steps it has made.

\* Steps an account may have made (its progress, in memory or on file).
MaxProgress == 2

\* save_status: the file is written; `open` failed and the file is as it
\* was; or json.dump failed after `open(status_file, 'w')` emptied the file.
SaveOutcomes == {"written", "untouched", "truncated"}

\* The file after a save_status with that outcome.
saved_file(outcome_of_save, file, memory) ==
  CASE outcome_of_save = "written" -> [readable |-> TRUE, progress |-> memory]
    [] outcome_of_save = "untouched" -> file
    [] outcome_of_save = "truncated" -> [file EXCEPT !.readable = FALSE]

StoreStart ==
  [ op |-> "loop_of_main",
    at |-> "loop",
    k |-> 1,
    memory |-> [i \in 1..NumAccounts |-> 0],
    file |-> [readable |-> TRUE, progress |-> [i \in 1..NumAccounts |-> 0]],
    invoked |-> <<>>,
    write_failed |-> [i \in 1..NumAccounts |-> FALSE],
    handled |-> [i \in 1..NumAccounts |-> "pending"] ]

StoreFrame ==
  UNCHANGED << settings, accounts, status_file, pc, cur, pos, source_l2_chain,
               run, faults, clean, subs, start_status, invoked, outcome, fail,
               returned, rt, pl, br, ld >>

\* for account in accounts: await process_account(...)
StoreInvoke ==
  /\ sv.op = "loop_of_main"
  /\ sv.at = "loop"
  /\ sv.k <= NumAccounts
  /\ sv' = [sv EXCEPT !.at = "proc", !.invoked = Append(@, sv.k)]
  /\ StoreFrame

\* The blocks of process_account: the account makes some steps, and the
\* blocks end (the save of line 458 is next) or one of them raises.
StoreSteps ==
  /\ sv.op = "loop_of_main"
  /\ sv.at = "proc"
  /\ \E steps \in 0..MaxProgress, raised \in BOOLEAN :
       /\ sv.memory[sv.k] + steps <= MaxProgress
       /\ sv' = [sv EXCEPT !.memory[sv.k] = @ + steps,
                           !.at = IF raised THEN "except" ELSE "final_save"]
  /\ StoreFrame

\* parser.save_status at the end of the try block, then the return.
StoreFinalSave ==
  /\ sv.op = "loop_of_main"
  /\ sv.at = "final_save"
  /\ \E o \in SaveOutcomes :
       sv' = IF o = "written"
             THEN [sv EXCEPT !.file = saved_file(o, sv.file, sv.memory),
                             !.handled[sv.k] = "returned",
                             !.at = "loop", !.k = @ + 1]
             ELSE [sv EXCEPT !.file = saved_file(o, sv.file, sv.memory),
                             !.write_failed[sv.k] = TRUE,
                             !.at = "except"]
  /\ StoreFrame

\* except Exception in process_account: log, parser.save_status, raise.  If
\* the save raises, its exception leaves the clause instead.
StoreExcept ==
  /\ sv.op = "loop_of_main"
  /\ sv.at = "except"
  /\ \E o \in SaveOutcomes :
       sv' = [sv EXCEPT !.file = saved_file(o, sv.file, sv.memory),
                        !.write_failed[sv.k] = @ \/ o # "written",
                        !.at = "main_except"]
  /\ StoreFrame

\* except Exception in main: log, parser.save_status, continue.  If the save
\* raises, its exception leaves main: the run is over.
main_except_after_save(outcome_of_save) ==
  IF outcome_of_save = "written" THEN "loop" ELSE "stopped"

StoreMainExcept ==
  /\ sv.op = "loop_of_main"
  /\ sv.at = "main_except"
  /\ \E o \in SaveOutcomes :
       sv' = [sv EXCEPT !.file = saved_file(o, sv.file, sv.memory),
                        !.write_failed[sv.k] = @ \/ o # "written",
                        !.handled[sv.k] = "raised",
                        !.at = main_except_after_save(o),
                        !.k = IF main_except_after_save(o) = "loop" THEN @ + 1 ELSE @]
  /\ StoreFrame

\* The loop is over: main returns.
StoreFinish ==
  /\ sv.op = "loop_of_main"
  /\ sv.at = "loop"
  /\ sv.k > NumAccounts
  /\ sv' = [sv EXCEPT !.at = "done"]
  /\ StoreFrame

InitStore ==
  /\ settings \in { [i \in 1..NumAccounts |->
                       parse_account_settings(i, 0, 0, ExchangeOfRow(i),
                                              "Defi_Vault", None)] }
  /\ MainIdle
  /\ rt = Idle
  /\ pl = Idle
  /\ br = Idle
  /\ ld = Idle
  /\ sv = StoreStart

NextStore ==
  \/ StoreInvoke
  \/ StoreSteps
  \/ StoreFinalSave
  \/ StoreExcept
  \/ StoreMainExcept
  \/ StoreFinish

SpecStore == InitStore /\ [][NextStore]_vars

\* ================================================================= claims
\* Position of a status in the transition table of the workflow:
\* INIT -> ADDRESS_GENERATED_WAITING -> ADDRESS_GENERATED -> DEPOSIT_INITIATED
\* -> CHECKING_L1_BALANCE -> CHECKING_L2_BALANCE -> WITHDRAWING_GAS ->
\* WITHDRAW_CONFIRMATION -> BRIDGING -> CONFIRMATIONS_PENDING -> MINTING ->
\* MINT_CONFIRMATION -> RESTAKING -> RESTAKE_CONFIRMATION -> COMPLETED.
Rank ==
  [ INIT |-> 0,
    BTC_ADDRESS_GENERATED_WAITING |-> 1,
    BTC_ADDRESS_GENERATED |-> 2,
    BTC_DEPOSIT_INITIATED |-> 3,
    CHECKING_ETH_BALANCE |-> 4,
    CHECKING_L2_ETH_BALANCE |-> 5,
    WITHDRAWING_ETH_FROM_EXCHANGE |-> 6,
    WITHDRAWING_ETH_FROM_EXCHANGE_CONFIRMATION |-> 7,
    BRIDGING_FROM_L2 |-> 8,
    BTC_CONFIRMATIONS_PENDING |-> 9,
    LBTC_MINT |-> 10,
    LBTC_MINT_CONFIRMATION |-> 11,
    LBTC_RESTAKED |-> 12,
    LBTC_RESTAKED_CONFIRMATION |-> 13,
    COMPLETED |-> 14 ]

OnFile(i) == PersistedStatus(status_file, PrivateKey(i))

HasRecord(i) == status_file.exists /\ PrivateKey(i) \in DOMAIN status_file.data

Record(i) == status_file.data[PrivateKey(i)]

\* The record on file holds the status and the tracked identifiers of acc.
RecordHolds(i, acc) ==
  /\ HasRecord(i)
  /\ Record(i).status = AccountStatus[acc.status]
  /\ \A f \in IdFields : Record(i)[f] = acc[f]

\* The side-effecting submissions, and the status whose block makes each.
Submissions == Kinds \ ({"address"} \cup Observations)

SubmittingStatus ==
  [ btc_withdrawal |-> "BTC_ADDRESS_GENERATED",
    eth_withdrawal |-> "WITHDRAWING_ETH_FROM_EXCHANGE",
    bridge_tx |-> "BRIDGING_FROM_L2",
    mint_tx |-> "BTC_CONFIRMATIONS_PENDING",
    approve_tx |-> "LBTC_MINT_CONFIRMATION",
    restake_tx |-> "LBTC_MINT_CONFIRMATION" ]

\* C1: every status change update_status makes inside process_account moves
\* the account strictly later in the transition table, and the status on file
\* of an account is never earlier than the one on file before.
C1_MonotonicProgression ==
  [][ \A i \in 1..NumAccounts :
        /\ (accounts # <<>> /\ accounts' # <<>>
              /\ accounts'[i].status # accounts[i].status)
             => Rank[accounts'[i].status] > Rank[accounts[i].status]
        /\ Rank[OnFile(i)'] >= Rank[OnFile(i)] ]_vars

\* C1 witness: an account that generated its address in one run is COMPLETED
\* on file in a later run.
C1_Witness ==
  \E i \in 1..NumAccounts :
    /\ settings[i].generate_btc_address = 1
    /\ run > 1
    /\ OnFile(i) = "COMPLETED"

\* C2: over the whole history, crashes and re-invocations included, no
\* side-effecting submission of an account is made a second time.
C2_NoDuplicateSubmission ==
  \A i \in 1..NumAccounts : \A k \in Submissions : subs[i][k] <= 1

\* C3: when process_account stands before a side-effecting step, the status
\* and the identifiers the earlier steps produced are on file.
C3_PersistedBeforeSideEffect ==
  (pc = "proc" /\ \E k \in Submissions : AtBlock(SubmittingStatus[k]))
    => /\ RecordHolds(cur, Acc)
       /\ \A f \in IdFields : Truthy(returned[f]) => Record(cur)[f] = returned[f]

\* C4: right after load_status, an account whose identity is on file has
\* exactly the persisted fields, and an identity not on file is INIT.
C4_RoundTrip ==
  (pc = "loop" /\ cur = 1)
    => \A i \in 1..NumAccounts :
         IF HasRecord(i) THEN RecordHolds(i, accounts[i])
                         ELSE accounts[i].status = "INIT"

\* C5: an invocation submits nothing for a step whose completion the status
\* on file already reflected when the run loaded the record.
C5_IdempotentReplay ==
  [][ \A i \in 1..NumAccounts : \A k \in Submissions :
        subs'[i][k] > subs[i][k]
          => Rank[start_status[i]] <= Rank[SubmittingStatus[k]] ]_vars

\* C5 witness: in a later run an account that had its BTC withdrawal on file
\* mints, and the withdrawal was made once.
C5_Witness ==
  \E i \in 1..NumAccounts :
    /\ run > 1
    /\ pc # "start"
    /\ Rank[start_status[i]] > Rank["BTC_ADDRESS_GENERATED"]
    /\ subs[i]["btc_withdrawal"] = 1
    /\ subs[i]["mint_tx"] = 1
    /\ accounts[i].status = "LBTC_MINT"

\* C6: a run in which every external operation succeeds leaves every account
\* that was not COMPLETED on file strictly later on file than it found it.
C6_NoDeadEnd ==
  (pc = "done" /\ clean)
    => \A i \in 1..NumAccounts :
         start_status[i] # "COMPLETED" => Rank[OnFile(i)] > Rank[start_status[i]]

C8_PartialProgressPersisted ==
  /\ fail.raised => pc \in {"except", "main_except"}
  /\ pc = "main_except"
       => /\ Acc.status = fail.status
          /\ RecordHolds(cur, Acc)
          /\ \A f \in IdFields : Truthy(returned[f]) => Record(cur)[f] = returned[f]

\* C9: a retried chain write (claim_lbtc, approve_lbtc,
\* restake_lbtc_defi_vault) whose every attempt fails makes exactly 3
\* attempts, sleeps its backoff only between attempts (2 sleeps, none after
\* the last) and raises the exception of the third attempt itself; it never
\* starts a fourth attempt and raises nothing while an attempt is left.
C9_RetryBound ==
  rt.op \in RetryOps
    => /\ rt.tries <= 3 /\ rt.backoffs <= 2
       /\ Len(rt.errors) = 3 <=> rt.at = "raised"
       /\ rt.at = "raised"
            => /\ rt.tries = 3
               /\ rt.backoffs = 2
               /\ rt.raised = rt.errors[3]
               /\ rt.raised.attempt = 2
               /\ \A n \in 1..3 : rt.errors[n].attempt = n - 1
       /\ rt.at # "raised" => rt.raised = NoError
       /\ rt.at \in {"try", "gate", "submit", "returned"}
            => rt.backoffs = Len(rt.errors)

\* C9 witness: a write was re-raised to its caller after three failed
\* attempts with different causes, one of them after a broadcast.
C9_Witness ==
  /\ rt.op \in RetryOps
  /\ rt.at = "raised"
  /\ rt.errors[1].cause # rt.errors[3].cause
  /\ rt.broadcasts > 0

\* C10: a poll that never observes its success predicate performs exactly N
\* status fetches (8 for deposit confirmations, 6 for the exchange withdrawal,
\* 3 for the bridge status), never more and never fewer, and then ends in its
\* timeout failure, whatever non-success answers it gets, an empty deposit
\* list and a missing status included.  Left aside: a request that itself
\* failed, a bridge answer of failure or refund, a poll without an id, and a
\* Bitget answer whose msg is the success the poll looks for.
C10_PollTimeout ==
  pl.kind \in PollKinds
    => /\ pl.checks <= Checks(pl.kind)
       /\ (pl.at = "done"
             /\ pl.result \notin {"success", "request_error", "terminal", "no_id"}
             /\ pl.last # "success")
            => /\ pl.result = "timeout"
               /\ pl.checks = Checks(pl.kind)

\* ---------------------------------------------------------------- C11
\* The call of bridge_eth is over: it returned or it raised.
BridgeDone == br.at \in {"returned", "raised"}

\* C11: every loop is bounded, the capacity check loop and the gas gate of
\* bridge_eth included: whatever the aggregator and the node answer, a call
\* of bridge_eth that is resumed after each of its sleeps comes to an end.
C11_EveryLoopTerminates == <>BridgeDone

\* ---------------------------------------------------------------- C12
\* The errors an attempt of the retried write ended with.
RetryErrors == {rt.errors[k] : k \in 1..Len(rt.errors)}

\* C12: with the ceiling unset (None) the gas gate of a gated write passes at
\* once: the write never waits at the gate and reading the ceiling never
\* raises.
C12_UnsetCeilingPasses ==
  (rt.op \in RetryOps /\ RetryCeiling = None)
    => /\ rt.gate_sleeps = 0
       /\ \A e \in RetryErrors : e.cause # "ceiling"

\* ---------------------------------------------------------------- C13
\* C13: with a ceiling set, the gas gate of a retried write lets the write
\* through only at a price sample at or below the ceiling: a transaction is
\* never built after a sample above the ceiling.
C13_GateSafety ==
  (rt.op \in RetryOps /\ RetryCeiling # None /\ rt.at = "submit")
    => rt.gas_price <= to_wei(RetryCeiling[1])

\* ---------------------------------------------------------------- C14
\* C14: the fee price of a submitted gated write comes from a price read
\* made after the gate has passed, not from the gate's last sample.
C14_FreshPriceAtSubmission ==
  (rt.op \in RetryOps /\ rt.broadcasts > 0) => rt.fee_source = "fresh_read"

\* ---------------------------------------------------------------- C15
\* The statuses of the secondary-chain and bridging path.
FundingStatuses ==
  { "CHECKING_L2_ETH_BALANCE", "WITHDRAWING_ETH_FROM_EXCHANGE",
    "WITHDRAWING_ETH_FROM_EXCHANGE_CONFIRMATION", "BRIDGING_FROM_L2" }

\* The account is at BTC_CONFIRMATIONS_PENDING or later, in memory or on file.
FundingSettled(i) ==
  \/ Rank[OnFile(i)] >= Rank["BTC_CONFIRMATIONS_PENDING"]
  \/ accounts # <<>> /\ Rank[accounts[i].status] >= Rank["BTC_CONFIRMATIONS_PENDING"]

FirstClearing(balances) ==
  LET clearing == { n \in 1..3 :
                      balances[<<"Optimism", "Base", "Arbitrum">>[n]]
                        >= min_l2_eth_balance }
  IN IF clearing = {}
     THEN "False"
     ELSE <<"Optimism", "Base", "Arbitrum">>[
            CHOOSE n \in clearing : \A k \in clearing : n <= k]

\* The CHECKING_L2_ETH_BALANCE block routes by the first clearing chain: to
\* BRIDGING_FROM_L2 with that chain as source_l2_chain, or, without one, to
\* WITHDRAWING_ETH_FROM_EXCHANGE.
RoutesByFirstClearing(balances) ==
  IF FirstClearing(balances) # "False"
  THEN /\ accounts'[cur].status = "BRIDGING_FROM_L2"
       /\ source_l2_chain' = FirstClearing(balances)
  ELSE accounts'[cur].status = "WITHDRAWING_ETH_FROM_EXCHANGE"

\* C16 as claimed: the secondary chains are examined in the order Optimism,
\* Base, Arbitrum; the first one clearing the secondary threshold becomes the
\* bridge source and the account goes to BRIDGING_FROM_L2, and without one it
\* goes to WITHDRAWING_ETH_FROM_EXCHANGE; the secondary threshold is smaller
\* than the threshold of the settlement chain.
C16_SecondaryChainSelection ==
  [][ \A balances \in L2Balances :
        CheckL2BalanceOn(balances)
          => /\ RoutesByFirstClearing(balances)
             /\ min_l2_eth_balance < min_eth_balance ]_vars

\* C16 as amended: the same selection and routing; the secondary threshold
\* is distinct from and larger than the threshold of the settlement chain.
C16_SecondaryChainSelectionAmended ==
  [][ \A balances \in L2Balances :
        CheckL2BalanceOn(balances)
          => /\ RoutesByFirstClearing(balances)
             /\ min_l2_eth_balance > min_eth_balance ]_vars

\* C16 witness: Arbitrum was selected as the bridge source (only the check
\* of the secondary chains yields it) and the account is in BRIDGING_FROM_L2.
C16_Witness ==
  /\ pc = "proc"
  /\ source_l2_chain = "Arbitrum"
  /\ Acc.status = "BRIDGING_FROM_L2"

\* ---------------------------------------------------------------- C17
\* C17: an account whose restake flag is false never has a restake status,
\* in memory or on file, never submits an approval or a vault deposit, and
\* once it is COMPLETED on file its record holds a mint transaction
\* identifier and no restake transaction identifier, also in the runs after
\* a reload from the file.
C17_NoRestakeScenario ==
  \A i \in 1..NumAccounts :
    settings[i].restaking_LBTC # 1
      => /\ OnFile(i) \notin {"LBTC_RESTAKED", "LBTC_RESTAKED_CONFIRMATION"}
         /\ accounts # <<>>
              => accounts[i].status \notin
                   {"LBTC_RESTAKED", "LBTC_RESTAKED_CONFIRMATION"}
         /\ subs[i]["approve_tx"] = 0
         /\ subs[i]["restake_tx"] = 0
         /\ OnFile(i) = "COMPLETED"
              => /\ Truthy(Record(i).transaction_hash_mint_lbtc)
                 /\ ~Truthy(Record(i).transaction_hash_restake_lbtc)

\* ---------------------------------------------------------------- C18
\* The account is at status st or later, in memory or on file.
ReachedStatus(i, st) ==
  \/ Rank[OnFile(i)] >= Rank[st]
  \/ accounts # <<>> /\ Rank[accounts[i].status] >= Rank[st]

\* What a confirmation step does on a receipt: on success the status
\* advances to `next`; otherwise the step raises, the status stays and
\* nothing is submitted.
ConfirmsBy(receipt, next) ==
  IF receipt = "success"
  THEN accounts'[cur].status = next /\ pc' # "except"
  ELSE /\ pc' = "except"
       /\ accounts'[cur].status = accounts[cur].status
       /\ subs' = subs

\* C18: confirm_lbtc_mint and confirm_restake advance the status exactly
\* when the receipt of the hash the account holds reports success; any other
\* receipt and a timeout raise and leave the status as it is; the except
\* clause then writes that status to the file, and an account at LBTC_MINT
\* (LBTC_RESTAKED) or later, in memory or on file, never has its mint (vault
\* deposit) submitted again.
C18_ChainReceiptWait ==
  [][ /\ \A receipt \in ReceiptOutcomes :
           /\ ConfirmMintOn(receipt)
                => ConfirmsBy(receipt, "LBTC_MINT_CONFIRMATION")
           /\ ConfirmRestakeOn(receipt)
                => ConfirmsBy(receipt, "LBTC_RESTAKED_CONFIRMATION")
      /\ (Except /\ fail.status \in {"LBTC_MINT", "LBTC_RESTAKED"})
           => OnFile(cur)' = fail.status
      /\ \A i \in 1..NumAccounts :
           /\ ReachedStatus(i, "LBTC_MINT")
                => subs'[i]["mint_tx"] = subs[i]["mint_tx"]
           /\ ReachedStatus(i, "LBTC_RESTAKED")
                => subs'[i]["restake_tx"] = subs[i]["restake_tx"] ]_vars

\* C18 witness: the confirmation of a mint raised on a receipt, the except
\* clause saved, and in a later run the account is LBTC_MINT on file with its
\* one mint submission.
C18_Witness ==
  \E i \in 1..NumAccounts :
    /\ run > 1
    /\ OnFile(i) = "LBTC_MINT"
    /\ Truthy(Record(i).transaction_hash_mint_lbtc)
    /\ subs[i]["mint_tx"] = 1

\* ---------------------------------------------------------------- C19
\* C19: in bridge_eth a receipt of the source transaction that reports no
\* success, and a receipt that does not arrive in time, end the call there:
\* it raises, makes no status check and returns no transaction identifier.
C19_BridgeReceiptFatal ==
  (br.op = "bridge_eth" /\ br.receipt \in {"failed", "timeout"})
    => /\ br.at = "raised"
       /\ br.checks = 0
       /\ br.result = ""

\* ---------------------------------------------------------------- C20
\* C20: in bridge_eth, after a wait for capacity the configuration has been
\* fetched again before the capacity is tested anew.
C20_BridgeCapacityRetry ==
  (br.op = "bridge_eth" /\ br.at = "loop" /\ br.capacity_waits > 0)
    => br.config_fetches > 1

\* ---------------------------------------------------------------- C21
\* C21: bridge_eth returns the hash of the source transaction only after a
\* status check answered `success`; once a check answered `failure` or
\* `refund` no further check is made and nothing is sent again, bridge_eth
\* returns no hash, and the BRIDGING_FROM_L2 block raises with the status
\* still BRIDGING_FROM_L2; the block advances to BTC_CONFIRMATIONS_PENDING
\* only with a hash.
C21_BridgeTerminalOutcomes ==
  [][ /\ br'.result # "" => br'.status = "success"
      /\ br.status \in {"failure", "refund"}
           => /\ br'.checks = br.checks
              /\ br'.broadcasts = br.broadcasts
              /\ br'.result = ""
              /\ br'.tx_hash_bridge \in {"unset", ""}
              /\ br'.block \in {"running", "raised"}
      /\ br'.block = "raised" => br'.account_status = "BRIDGING_FROM_L2"
      /\ br'.block = "advanced"
           => /\ br'.status = "success"
              /\ br'.account_status = "BTC_CONFIRMATIONS_PENDING"
      /\ br'.account_status # "BRIDGING_FROM_L2" => br'.block = "advanced"
    ]_vars

\* C21 witness: a status check answered `refund` and the BRIDGING_FROM_L2
\* block raised.
C21_Witness ==
  /\ br.op = "bridge_eth"
  /\ br.status = "refund"
  /\ br.block = "raised"

\* ---------------------------------------------------------------- C22
\* The tracked identifiers: the withdrawal ids and the transaction hashes.
TrackedIds == IdFields \ {"btc_address"}

\* C22: a tracked identifier that is non-empty in the record of an account
\* on file keeps its value in every later record of that account: no save,
\* load or step changes it or empties it.
C22_IdentifiersWriteOnce ==
  [][ \A i \in 1..NumAccounts : \A f \in TrackedIds :
        (HasRecord(i) /\ Truthy(Record(i)[f]))
          => (HasRecord(i)' /\ Record(i)'[f] = Record(i)[f]) ]_vars

\* ---------------------------------------------------------------- C23
\* The identifier the block of a status needs from an earlier step.
NeededIdentifier ==
  [ LBTC_MINT |-> "transaction_hash_mint_lbtc",
    LBTC_RESTAKED |-> "transaction_hash_restake_lbtc",
    WITHDRAWING_ETH_FROM_EXCHANGE_CONFIRMATION |-> "withdrawal_id_eth",
    BTC_ADDRESS_GENERATED |-> "btc_address" ]

\* The block of status st is about to run without the identifier it needs.
MissingAt(st) == AtBlock(st) /\ Acc[NeededIdentifier[st]] = None

\* C23: the confirmation of the mint without the mint hash, the confirmation
\* of the restake without the restake hash, the confirmation of the ETH
\* withdrawal without its id and the BTC withdrawal without the deposit
\* address raise and leave the status as it is; none advances the status.
C23_MissingOutputFailsLoudly ==
  [][ \A st \in DOMAIN NeededIdentifier :
        MissingAt(st)
          => \/ accounts' = <<>>
             \/ /\ pc' = "except"
                /\ fail'.raised
                /\ accounts'[cur].status = st
                /\ subs' = subs ]_vars

\* C23 witness: in a later run the confirmation of the mint raised for an
\* account that was loaded without its mint hash.
C23_Witness ==
  /\ run > 1
  /\ pc = "except"
  /\ fail.status = "LBTC_MINT"
  /\ Acc.transaction_hash_mint_lbtc = None

\* ---------------------------------------------------------------- C24
\* The deposit address of the account on file (None without one).
AddressOnFile(i) == IF HasRecord(i) THEN Record(i).btc_address ELSE None

\* The deposit address of the account object (None without an object).
AddressInMemory(i) == IF accounts # <<>> THEN accounts[i].btc_address ELSE None

InitReentry ==
  /\ AtBlock("INIT")
  /\ Acc.settings.generate_btc_address = 1
  /\ Acc.btc_address # None

\* C25: from INIT with the generate-address flag set and an address present,
\* the step calls no address generation, makes the account
\* BTC_ADDRESS_GENERATED and leaves control in the same invocation in front
\* of the BTC_ADDRESS_GENERATED block (unless the process is killed).
C25_IdempotentInitReentry ==
  [][ InitReentry
        => \/ accounts' = <<>>
           \/ /\ subs' = subs
              /\ cur' = cur
              /\ outcome' = outcome
              /\ accounts'[cur].status = "BTC_ADDRESS_GENERATED"
              /\ accounts'[cur].btc_address = Acc.btc_address
              /\ pc' = "proc"
              /\ pos' <= Block["BTC_ADDRESS_GENERATED"] ]_vars

\* C25 witness: in a later run the INIT block has just passed an account that
\* kept the address generated for it before, and the withdrawal block is next.
C25_Witness ==
  /\ run > 1
  /\ pc = "proc"
  /\ pos = Block["INIT"] + 1
  /\ Acc.settings.generate_btc_address = 1
  /\ Acc.status = "BTC_ADDRESS_GENERATED"
  /\ start_status[cur] = "INIT"
  /\ subs[cur]["address"] = 1
  /\ subs[cur]["btc_withdrawal"] = 0

\* ---------------------------------------------------------------- C26
\* One step of the whitelisting stop, with `left` the status the generating
\* invocation leaves on file when it returns:
\*  - the INIT step that generates an address submits nothing else and goes on
\*    to its return (or to the except clause when the sheet cannot be written);
\*  - the generating invocation returns with `left` on file and no submission;
\*  - an invocation on BTC_ADDRESS_GENERATED_WAITING returns and changes nothing.
WhitelistingStopStep(left) ==
  /\ (AtBlock("INIT") /\ subs'[cur]["address"] # subs[cur]["address"])
       => /\ \A k \in Submissions : subs'[cur][k] = subs[cur][k]
          /\ pc' \in {"init_saved", "except"}
  /\ pc = "init_saved"
       => \/ accounts' = <<>>
          \/ /\ pc' = "loop"
             /\ outcome'[cur] = "returned"
             /\ subs' = subs
             /\ \E i \in {cur} : OnFile(i)' = left
  /\ AtBlock("BTC_ADDRESS_GENERATED_WAITING")
       => \/ accounts' = <<>>
          \/ /\ pc' = "loop"
             /\ outcome'[cur] = "returned"
             /\ subs' = subs
             /\ accounts' = accounts
             /\ status_file' = status_file

\* C26 as stated: the generating invocation returns with
\* BTC_ADDRESS_GENERATED_WAITING on file.
C26_WhitelistingStop ==
  [][ WhitelistingStopStep("BTC_ADDRESS_GENERATED_WAITING") ]_vars

\* C26: the invocation that generates a deposit address returns without an
\* exchange withdrawal, and the status on file when it returns is
\* BTC_ADDRESS_GENERATED (BTC_ADDRESS_GENERATED_WAITING is on file only
\* between the two saves of the step); an invocation on a
\* BTC_ADDRESS_GENERATED_WAITING account returns and changes nothing.
C26_WhitelistingStopAmended ==
  [][ WhitelistingStopStep("BTC_ADDRESS_GENERATED") ]_vars

\* C26 witness: the invocation that generated the address has returned, with
\* no withdrawal made and BTC_ADDRESS_GENERATED on file.
C26_Witness ==
  \E i \in 1..NumAccounts :
    /\ run = 1
    /\ pc = "loop"
    /\ cur = i + 1
    /\ outcome[i] = "returned"
    /\ subs[i]["address"] = 1
    /\ subs[i]["btc_withdrawal"] = 0
    /\ OnFile(i) = "BTC_ADDRESS_GENERATED"

\* ---------------------------------------------------------------- C27
\* process_account runs on an account that was COMPLETED when the run loaded it.
InvokedCompleted ==
  /\ pc = "proc"
  /\ start_status[cur] = "COMPLETED"
  /\ Acc.status = "COMPLETED"

\* C27: an invocation on a COMPLETED account submits nothing (no exchange
\* withdrawal, no chain transaction, no address generation) and leaves the
\* status and every tracked identifier of the account as they were, in the
\* account object and in its record on file.
C27_TerminalStateInert ==
  [][ InvokedCompleted
        => /\ subs' = subs
           /\ accounts' # <<>>
                => /\ accounts'[cur].status = "COMPLETED"
                   /\ \A f \in IdFields : accounts'[cur][f] = Acc[f]
           /\ \E i \in {cur} :
                HasRecord(i)
                  => /\ HasRecord(i)'
                     /\ Record(i)'.status = Record(i).status
                     /\ \A f \in IdFields : Record(i)'[f] = Record(i)[f] ]_vars

\* ---------------------------------------------------------------- C28
\* The identities that have a record in the store.
StoredIdentities == IF status_file.exists THEN DOMAIN status_file.data ELSE {}

\* C28: every identity with a record in the store has a record in the store
\* after every step, whether or not it is among the accounts loaded from the
\* sheet.
C28_RecordsNeverDeleted ==
  [][ StoredIdentities \subseteq StoredIdentities' ]_vars

\* ---------------------------------------------------------------- C29
\* A row of the sheet fails validation, or status.json exists and cannot be
\* loaded: it is not JSON, or the record of a row holds a status value of no
\* member of AccountStatus.
ConfigurationError ==
  \/ \E i \in 1..NumAccounts : ~ld.sheet[i]
  \/ ld.file.kind = "malformed"
  \/ \E i \in 1..NumAccounts :
       /\ PrivateKey(i) \in DOMAIN ld.file.data
       /\ "status" \in DOMAIN ld.file.data[PrivateKey(i)]
       /\ ld.file.data[PrivateKey(i)].status # ""
       /\ ~IsStatusValue(ld.file.data[PrivateKey(i)].status)

\* C29: with a row that fails validation or a status file that cannot be
\* loaded, main takes no account for processing, calls process_account for no
\* account and never writes the store.
C29_ConfigurationErrorsAbort ==
  (ld.op = "main" /\ ConfigurationError)
    => /\ ld.main_accounts = <<>>
       /\ ld.at # "loop"
       /\ ld.invoked = <<>>
       /\ ld.writes = 0

\* C29 witness: the second row failed validation after the first was parsed
\* into an account; main has returned with nothing invoked or written.
C29_Witness ==
  /\ ld.op = "main"
  /\ ld.at = "returned"
  /\ ld.sheet[1] /\ ~ld.sheet[NumAccounts]
  /\ Len(ld.accounts) = NumAccounts - 1
  /\ ld.error = "Error loading settings"
  /\ ld.invoked = <<>>
  /\ ld.writes = 0

\* C29 second case reached: the sheet is valid and status.json is not JSON.
C29_WitnessStatusFile ==
  /\ ld.op = "main"
  /\ ld.at = "returned"
  /\ \A i \in 1..NumAccounts : ld.sheet[i]
  /\ ld.file.kind = "malformed"
  /\ ld.error = "Error initializing accounts"

\* ---------------------------------------------------------------- C30
\* The record of row i on file has no status that is the value of a member of
\* AccountStatus: the value is unknown, empty, or missing.
UnrecognizedStatus(i) ==
  /\ ld.file.kind = "json"
  /\ PrivateKey(i) \in DOMAIN ld.file.data
  /\ ~ ( /\ "status" \in DOMAIN ld.file.data[PrivateKey(i)]
         /\ IsStatusValue(ld.file.data[PrivateKey(i)].status) )

\* C30: when load_status has read the record of an account whose status value
\* is unknown, empty or missing, loading has failed with an error; no account
\* comes out of load_status with such a record (and the default INIT).
C30_UnrecognizedStatusFails ==
  (ld.op = "main" /\ \E i \in 1..Len(ld.accounts) : UnrecognizedStatus(i))
    => /\ ld.at \notin {"status_main", "loop"}
       /\ ld.at = "returned" => ld.error # ""

\* ---------------------------------------------------------------- C31
\* A step of account i: an external submission for it, or a change of its
\* object (status, identifiers) while the run lives.
StepOf(i) ==
  \/ subs'[i] # subs[i]
  \/ accounts # <<>> /\ accounts' # <<>> /\ accounts'[i] # accounts[i]

C32_PollSuccessOnlyOnPredicate ==
  (pl.kind \in {"OKX", "Bitget"} /\ pl.result = "success")
    => pl.state \in {"Withdrawal complete", "success"}

\* ---------------------------------------------------------------- C33
\* C33: when the bridging block succeeds and the status becomes
\* BTC_CONFIRMATIONS_PENDING, the account's transaction_hash_bridge_eth is the
\* transaction identifier bridge_eth returned (the object is what every
\* later save_status writes to the record on file).
C33_BridgeIdentifierRecorded ==
  [][ (AtBlock("BRIDGING_FROM_L2")
         /\ accounts' # <<>>
         /\ accounts'[cur].status = "BTC_CONFIRMATIONS_PENDING")
        => /\ returned'.transaction_hash_bridge_eth # None
           /\ accounts'[cur].transaction_hash_bridge_eth
                = returned'.transaction_hash_bridge_eth ]_vars

\* ---------------------------------------------------------------- C34
\* The invocation for account i in this run started from INIT with a
\* configured deposit address, no external operation has failed in the run,
\* and the invocation is over.
CleanInvocationOver(i) ==
  /\ accounts # <<>>
  /\ settings[i].generate_btc_address = 0
  /\ start_status[i] = "INIT"
  /\ clean
  /\ outcome[i] # "pending"

\* C34: with a configured deposit address and every external operation
\* succeeding, one invocation of process_account from INIT returns with
\* COMPLETED in the object and on file.
C34_FallThroughInOneInvocation ==
  \A i \in 1..NumAccounts :
    CleanInvocationOver(i)
      => /\ outcome[i] = "returned"
         /\ accounts[i].status = "COMPLETED"
         /\ OnFile(i) = "COMPLETED"

\* ---------------------------------------------------------------- C35
\* C35: once a write of the store has failed while account j was being
\* processed, the run stops: process_account is invoked for no account after
\* j; and no account is invoked while the file is behind the memory.
C35_UnwritableStoreIsFatal ==
  [][ sv'.invoked # sv.invoked
        => /\ \A j \in 1..NumAccounts : ~sv.write_failed[j]
           /\ sv.file.readable
           /\ sv.file.progress = sv.memory ]_vars

\* ---------------------------------------------------------------- C36
\* C36: a step of the gas gate of a retried chain write (a sleep and a new
\* price sample) broadcasts no transaction and yields no hash, and leaves the
\* accounts, the status file and the submissions as they are; while the call
\* stays in the gate, only its price sample and its count of sleeps change.
C36_GasGatePure ==
  [][ (rt.op \in RetryOps /\ rt.at = "gate")
        => /\ rt'.broadcasts = rt.broadcasts
           /\ rt'.tx_hash = rt.tx_hash
           /\ accounts' = accounts
           /\ status_file' = status_file
           /\ subs' = subs
           /\ rt'.at = "gate"
                => rt' = [rt EXCEPT !.gas_price = rt'.gas_price,
                                    !.gate_sleeps = rt'.gate_sleeps] ]_vars

\* C36 witness: the call has slept in the gate MaxGateSleeps times and waits on.
C36_Witness ==
  /\ rt.op \in RetryOps
  /\ rt.at = "gate"
  /\ rt.gate_sleeps = MaxGateSleeps

\* C36 for the gate of bridge_eth (checked under SpecBridge): a step of the
\* gate broadcasts nothing, yields no hash and leaves the account status, the
\* accounts, the status file and the submissions as they are.
C36_BridgeGatePure ==
  [][ (br.op = "bridge_eth" /\ br.at = "gate")
        => /\ br'.broadcasts = br.broadcasts
           /\ br'.account_status = br.account_status
           /\ br'.tx_hash_bridge = br.tx_hash_bridge
           /\ accounts' = accounts
           /\ status_file' = status_file
           /\ subs' = subs ]_vars

\* ---------------------------------------------------------------- C37
\* C37: one call of a retried chain write broadcasts at most one transaction:
\* after an attempt has broadcast, no later attempt of the call broadcasts.
C37_RetryNeverDuplicatesBroadcast ==
  rt.op \in RetryOps => rt.broadcasts <= 1

\* ---------------------------------------------------------------- C38
\* C38: whenever the bridging block of process_account runs, also in an
\* invocation that starts from BRIDGING_FROM_L2 or
\* WITHDRAWING_ETH_FROM_EXCHANGE_CONFIRMATION on file, the local
\* source_l2_chain is bound to a chain (the one the L2 balance check chose or
\* the one the exchange withdrawal went to).
C38_BridgeSourceChainDefined ==
  AtBlock("BRIDGING_FROM_L2")
    => source_l2_chain \in {L2Chains[n] : n \in DOMAIN L2Chains}

\* The order the history of account i keeps: a mint submission has a
\* successful deposit wait before it, which has a BTC withdrawal before it; a
\* vault deposit has a mined approval before it; COMPLETED (in the account
\* object or on file) has a successful mint receipt before it and, with the
\* restake flag set, a successful restake receipt.
CausallyOrdered(i) ==
  /\ subs[i]["mint_tx"] > 0 => subs[i]["deposit_confirmed"] = 1
  /\ subs[i]["deposit_confirmed"] = 1 => subs[i]["btc_withdrawal"] > 0
  /\ subs[i]["restake_tx"] > 0
       => subs[i]["approve_tx"] > 0 /\ subs[i]["approve_mined"] = 1
  /\ ReachedStatus(i, "COMPLETED")
       => /\ subs[i]["mint_receipt"] = 1
          /\ settings[i].restaking_LBTC = 1 => subs[i]["restake_receipt"] = 1

\* C39: after every step the history of every account is causally ordered
\* (mint after a successful deposit wait, that wait after the BTC withdrawal,
\* vault deposit after a mined approval, COMPLETED after the successful mint
\* receipt and, with the restake flag, the successful restake receipt), and
\* a step that submits the vault deposit is the step that submitted the
\* approval and got it mined.
C39_CausalOrdering ==
  [][ \A i \in 1..NumAccounts :
        /\ CausallyOrdered(i)'
        /\ subs'[i]["restake_tx"] > subs[i]["restake_tx"]
             => /\ subs'[i]["approve_tx"] > subs[i]["approve_tx"]
                /\ subs'[i]["approve_mined"] = 1 ]_vars

\* C39 witness: an account with the restake flag is COMPLETED on file after
\* one BTC withdrawal, one mint, one approval and one vault deposit.
C39_Witness ==
  \E i \in 1..NumAccounts :
    /\ settings[i].restaking_LBTC = 1
    /\ OnFile(i) = "COMPLETED"
    /\ subs[i]["btc_withdrawal"] = 1
    /\ subs[i]["deposit_confirmed"] = 1
    /\ subs[i]["mint_tx"] = 1
    /\ subs[i]["mint_receipt"] = 1
    /\ subs[i]["approve_tx"] = 1
    /\ subs[i]["approve_mined"] = 1
    /\ subs[i]["restake_tx"] = 1
    /\ subs[i]["restake_receipt"] = 1

\* bridge_eth met what stops it before the transaction: the bridge is
\* disabled, the quote request failed, or the quote is empty.
BridgeRefused ==
  /\ br.observed # <<>>
  /\ br.observed[Len(br.observed)] \in {"disabled", "quote_failed", "quote_empty"}

\* C40: when bridge_eth has broadcast the source-chain transaction, the last
\* iteration of its loop saw, in this order, the configuration enabled, the
\* amount within the solver's capacity per request and a non-empty quote,
\* and the configuration it holds is present, enabled and of a capacity not
\* below the amount; when the bridge is disabled or the quote request fails
\* or gives nothing, the call has raised and nothing was broadcast.
C40_NoBridgeWithoutValidQuote ==
  br.op = "bridge_eth"
    => /\ br.broadcasts > 0
            => /\ br.observed = <<"enabled", "within_capacity", "quote">>
               /\ br.bridge_config.present
               /\ br.bridge_config.enabled
               /\ br.bridge_config.capacityPerRequest >= br.amount_to_bridge
               /\ br.amount_to_bridge = br.bridge_config.maxBridgeAmount
               /\ br.quotes > 0
       /\ BridgeRefused
            => /\ br.at = "raised"
               /\ br.error # "none"
               /\ br.broadcasts = 0

\* C40 witness: bridge_eth broadcast the transaction after an enabled
\* configuration, an amount within the capacity and a quote.
C40_Witness ==
  /\ br.op = "bridge_eth"
  /\ br.broadcasts = 1
  /\ br.observed = <<"enabled", "within_capacity", "quote">>

\* C40 witness: the bridge is disabled and the call raised without a
\* transaction.
C40_WitnessDisabled ==
  /\ br.op = "bridge_eth"
  /\ br.observed = <<"disabled">>
  /\ br.at = "raised"
  /\ br.broadcasts = 0

============================================================================
